---- MODULE Spec2Model ----
(***************************************************************************)
(* A model of the bottom sheet of react-modal-sheet: the lifecycle hook    *)
(* useSheetState (src/src/hooks/use-sheet-state.ts) and the Sheet          *)
(* component that drives it (src/src/sheet.tsx).                           *)
(*                                                                         *)
(* React is modelled at the grain the code depends on:                     *)
(*  - a render commits the pending setState calls (the last one wins), and *)
(*    then runs, in declaration order, the cleanup and the body of every   *)
(*    effect whose dependencies changed;                                   *)
(*  - what follows an `await` runs later, as a step of its own;            *)
(*  - the motion value y notifies 'animationCancel' when a running         *)
(*    animation is stopped (y.stop(), or a new animate()) and              *)
(*    'animationComplete' when it ends by itself.                          *)
(***************************************************************************)
EXTENDS Integers, Sequences, FiniteSets, TLC

VARIABLES
    isOpen,             \* the isOpen prop as the parent currently holds it
    seenIsOpen,         \* the isOpen of the last render (the [isOpen] dependency)
    renders,            \* commits so far: 0, 1, or 2 for more
    state,              \* useSheetState: const [state, setState]
    queue,              \* setState(...) calls not yet rendered
    eff,                \* the started handle() runs and their promises
    abortControllerRef, \* abortControllerRef.current: id of a handle, 0 if none alive
    y,                  \* the motion value y
    anim,               \* the animation of y in flight
    openStateRef,       \* openStateRef.current
    yListeners,         \* yListenersRef.current: the subscribed listener pair
    currentSnap,        \* const [currentSnap, setCurrentSnap]
    snapQ,              \* setCurrentSnap(...) not yet rendered
    sheetHeight,        \* Math.round(sheetBounds.height)
    seenSnapY,          \* currentSnapPointY of the last render
    kbOpen,             \* keyboard.isKeyboardOpen of the last render
    kbCleanup,          \* what the [keyboard.isKeyboardOpen] effect returned
    snapPointsProp,     \* the snapPoints prop: [given, values]
    initialSnap,        \* the initialSnap prop or Undefined
    hist,               \* the last committed states, oldest first
    flipped,            \* (history) the parent has changed isOpen since the mount
    stuck,              \* the effect of the current transient state has rejected
    log,                \* what the last step called, in order
    focus,              \* the element that has the DOM focus
    focusHook,          \* useSnapOnFocus: what its effect has set up
    cleanup,            \* useSnapOnFocus: `let cleanup` of the running effect
    restores,           \* (history) how often each returned restore callback ran
    focusedElementRef,  \* useVirtualKeyboard: focusedElementRef.current
    debounceTimer,      \* useVirtualKeyboard: debounceTimer.current is pending
    keyboardState,      \* useVirtualKeyboard: const [state, setState]
    keyboardInset,      \* the --keyboard-inset-height of the positioner
    platform,           \* the keyboard API of the browser and the height it reports
    yUnconstrainedRef,  \* yUnconstrainedRef.current
    dragRaw,            \* (history) y at the drag start plus every delta since
    disableDismiss,     \* the disableDismiss prop
    call,               \* the function of utils.ts or ./snap last called, with its arguments
    ret,                \* what that call returned
    debounce,           \* the timers of the three debounced callbacks
    ran,                \* the callbacks the last step invoked
    poll                \* waitForElement: its attempts, whether the element exists, its promise

vars == <<isOpen, seenIsOpen, renders, state, queue, eff, abortControllerRef,
          y, anim, openStateRef, yListeners, currentSnap, snapQ, sheetHeight,
          seenSnapY, kbOpen, kbCleanup, snapPointsProp, initialSnap,
          hist, flipped, stuck, log, focus, focusHook, cleanup, restores,
          focusedElementRef, debounceTimer, keyboardState, keyboardInset, platform,
          yUnconstrainedRef, dragRaw, disableDismiss, call, ret,
          debounce, ran, poll>>

(***************************************************************************)
(* Bounds                                                                  *)
(***************************************************************************)
\* handle() runs that can be alive at once
MaxEff == 3
\* setState calls that can wait for one render
MaxQueue == 3
\* the measured height of the mounted sheet, in pixels
SheetH == 4
\* how much taller the window is than the mounted sheet
WindowExtra == 2
\* committed states remembered in hist
HistLen == 3

Undefined == -1
NoAnim == -1
windowHeight == SheetH + WindowExtra

\* FALSE until the first commit has run its effects
mounted == renders > 0

SheetState == {"closed", "opening", "open", "closing"}
Transient == {"opening", "closing"}

(***************************************************************************)
(* The handle() runs.  A run is alive from its start until nothing can     *)
(* reach its promise any more.                                             *)
(*   kind     the state it was started for ("free": the slot is unused)    *)
(*   aborted  abortController.signal.aborted of its own controller         *)
(*   settled  the awaited promise has been resolved or rejected            *)
(*   pend     the continuation after the await has still to run            *)
(*   wait     its waitForElement poll is still pending                     *)
(*   ext      the awaited promise belongs to the caller of the hook        *)
(*   stale    (history) a later commit saw isOpen or state change          *)
(*   fromClosed (history) started on the path closed -> opening -> open    *)
(***************************************************************************)
Free == [kind |-> "free", aborted |-> FALSE, settled |-> FALSE, pend |-> "none",
         wait |-> FALSE, ext |-> FALSE, stale |-> FALSE, fromClosed |-> FALSE]

EffIds == 1..MaxEff
NoListener == [kind |-> "none", h |-> 0]

\* an entry of the log: the call c, its argument a, and the handle() run h on whose
\* behalf it was made (0: none), with that run's kind and history
Entry(c, a, h, s, k, fc) ==
    [c |-> c, a |-> a, h |-> h, stale |-> s, kind |-> k, fromClosed |-> fc]

Logged(S, c, a, h, s) ==
    [S EXCEPT !.log = Append(@, IF h = 0 THEN Entry(c, a, h, s, "none", FALSE)
                                ELSE Entry(c, a, h, s, S.eff[h].kind,
                                           S.eff[h].fromClosed))]

Max(a, b) == IF a >= b THEN a ELSE b
Min(a, b) == IF a <= b THEN a ELSE b
Clamp(v, lo, hi) == Max(lo, Min(v, hi))

(***************************************************************************)
(* Snap points                                                             *)
(***************************************************************************)
\* the snapPoints prop of the modelled sheet, in pixels
SnapPointValues == <<2, SheetH>>
\* safeSpace = { top: 0, bottom: 0 } and no device insets
safeSpaceTop == 0
safeSpaceBottom == 0
minSnapValue == IF safeSpaceBottom # 0 THEN safeSpaceBottom ELSE 0
maxSnapValue == windowHeight - safeSpaceTop

RECURSIVE Ascending(_)
\* vs without the values that do not exceed their predecessor
Ascending(vs) ==
    IF Len(vs) <= 1 THEN vs
    ELSE LET init == Ascending(SubSeq(vs, 1, Len(vs) - 1))
         IN IF vs[Len(vs)] > init[Len(init)] THEN Append(init, vs[Len(vs)]) ELSE init

\* (mutation) computeSnapPoints without the dismiss point the caller did not ask for
computeSnapPointsAsGiven(sh, prop, minV, maxV) ==
    IF sh <= 0 THEN <<>>
    ELSE LET vals == Ascending([i \in 1..Len(prop) |-> Clamp(prop[i], minV, maxV)])
         IN [i \in 1..Len(vals) |->
                [snapIndex |-> i - 1, snapValue |-> vals[i],
                 snapValueY |-> Max(sh - vals[i], 0)]]

computeSnapPoints(sh, prop, minV, maxV) ==
    IF sh <= 0 THEN <<>>
    ELSE LET clamped == [i \in 1..Len(prop) |-> Clamp(prop[i], minV, maxV)]
             vals == Ascending(<<minV>> \o clamped)
         IN [i \in 1..Len(vals) |->
                [snapIndex |-> i - 1, snapValue |-> vals[i],
                 snapValueY |-> Max(sh - vals[i], 0)]]

\* (mutation) snap points computed against the window while the sheet is unmeasured
snapPointsOfWindow(sh) ==
    IF snapPointsProp.given
    THEN computeSnapPoints(IF sh > 0 THEN sh ELSE SheetH + WindowExtra,
                           snapPointsProp.values, minSnapValue, maxSnapValue)
    ELSE <<>>

\* const snapPoints = useMemo(...)
snapPoints(sh) ==
    IF snapPointsProp.given /\ sh > 0
    THEN computeSnapPoints(sh, snapPointsProp.values, minSnapValue, maxSnapValue)
    ELSE <<>>

closedY(sh) == IF sh > 0 THEN sh ELSE windowHeight

\* getSnapPoint(snapIndex) returns a snap point (TRUE) or null (FALSE)
HasSnapPoint(sh, i) ==
    snapPointsProp.given /\ i >= 0 /\ i < Len(snapPoints(sh))

getSnapPoint(sh, i) == snapPoints(sh)[i + 1]

\* const currentSnapPointY = currentSnap ? getSnapPoint(currentSnap)?.snapValueY : null
\* (null and undefined both make the effect return, and are one value here)
currentSnapPointY(sh, cs) ==
    IF cs # Undefined /\ cs # 0 /\ HasSnapPoint(sh, cs)
    THEN getSnapPoint(sh, cs).snapValueY
    ELSE Undefined

(***************************************************************************)
(* The mutable things a handler reads and writes, as one record that the   *)
(* handlers below transform in the order of the code.                      *)
(***************************************************************************)
Heap == [y |-> y, anim |-> anim, osr |-> openStateRef, yl |-> yListeners,
         eff |-> eff, ref |-> abortControllerRef, queue |-> queue,
         snapQ |-> snapQ, stuck |-> stuck, log |-> <<>>]

NoUpdate == -2
Stopped == [to |-> NoAnim, snap |-> Undefined]

\* setState(v) of useSheetState
setState(S, v, h) ==
    Logged([S EXCEPT !.queue = Append(@, v)], "setState", 0, h,
           IF h = 0 THEN FALSE ELSE S.eff[h].stale)

\* const updateSnap = ...
updateSnap(S, snapIndex, h) ==
    LET st == IF h = 0 THEN FALSE ELSE S.eff[h].stale
    IN Logged(Logged([S EXCEPT !.snapQ = snapIndex],
                     "setCurrentSnap", snapIndex, h, st),
              "onSnap", snapIndex, h, st)

\* const clearYListeners = ...
clearYListeners(S) == [S EXCEPT !.yl = NoListener]

\* resolve() / reject() of the promise that handle h awaits
resolve(S, h) ==
    IF S.eff[h].settled THEN S
    ELSE [S EXCEPT !.eff[h].settled = TRUE, !.eff[h].pend = "resolved"]

reject(S, h) ==
    IF S.eff[h].settled THEN S
    ELSE [S EXCEPT !.eff[h].settled = TRUE, !.eff[h].pend = "rejected"]

\* const handleOpenEnd = ...
handleOpenEnd(S, h) ==
    LET st == S.eff[h].stale
        S1 == IF initialSnap # Undefined THEN updateSnap(S, initialSnap, h) ELSE S
        S2 == Logged(S1, "onOpenEnd", 0, h, st)
    IN Logged([S2 EXCEPT !.osr = "open"], "openStateRef:=open", 0, h, st)

\* const handleCloseEnd = ...
handleCloseEnd(S, h) ==
    LET S1 == Logged(S, "onCloseEnd", 0, h, S.eff[h].stale)
    IN [S1 EXCEPT !.osr = "closed"]

\* the listeners subscribed with y.on('animationCancel') and y.on('animationComplete')
Notify(S, ev) ==
    LET l == S.yl
        S1 == clearYListeners(S)
    IN IF l.kind = "none" THEN S
       ELSE IF l.kind = "open"
       THEN IF ev = "animationComplete" \/ S1.osr = "opening"
            THEN resolve(handleOpenEnd(S1, l.h), l.h)
            ELSE reject(S1, l.h)
       ELSE IF ev = "animationComplete" \/ S1.osr = "closing"
            THEN resolve(handleCloseEnd(S1, l.h), l.h)
            ELSE reject(S1, l.h)

\* y.stop()
yStopRunsOnComplete(S) ==
    IF S.anim = Stopped THEN S
    ELSE LET S1 == [S EXCEPT !.anim = Stopped]
             S2 == IF S.anim.snap # Undefined THEN updateSnap(S1, S.anim.snap, 0) ELSE S1
         IN Notify(Logged(S2, "stop", 0, 0, FALSE), "animationCancel")

yStop(S) ==
    IF S.anim = Stopped THEN S
    ELSE Notify(Logged([S EXCEPT !.anim = Stopped], "stop", 0, 0, FALSE),
                "animationCancel")

\* animate(y, to, { onComplete: () => updateSnap(snap) })
animate(S, to, snap, h) ==
    LET S1 == yStop(S)
    IN Logged([S1 EXCEPT !.anim = [to |-> to, snap |-> snap]], "animate", to, h,
              IF h = 0 THEN FALSE ELSE S.eff[h].stale)

\* const snapTo = useStableCallback(async (snapIndex, options) => ...), up to its
\* first await; sh is the sheet height of the render whose closure runs
\* (mutation) a snapTo that animates to snap point 0 like to any other
snapToZeroAnimates(S, sh, snapIndex, immediate) ==
    IF ~snapPointsProp.given \/ ~HasSnapPoint(sh, snapIndex)
    THEN Logged(S, "warn", snapIndex, 0, FALSE)
    ELSE IF immediate
    THEN updateSnap(Logged([S EXCEPT !.y = getSnapPoint(sh, snapIndex).snapValueY],
                           "y.set", getSnapPoint(sh, snapIndex).snapValueY, 0, FALSE),
                    snapIndex, 0)
    ELSE animate(S, getSnapPoint(sh, snapIndex).snapValueY, snapIndex, 0)

\* (mutation) a snapTo that takes the nearest snap point for an index out of range
snapToNearest(S, sh, snapIndex, immediate) ==
    LET i == Clamp(snapIndex, 1, Max(Len(snapPoints(sh)) - 1, 1))
    IN IF ~snapPointsProp.given \/ ~HasSnapPoint(sh, i)
       THEN Logged(S, "warn", snapIndex, 0, FALSE)
       ELSE IF snapIndex = 0
       THEN Logged(S, "onClose", 0, 0, FALSE)
       ELSE animate(S, getSnapPoint(sh, i).snapValueY, i, 0)

snapTo(S, sh, snapIndex, immediate) ==
    IF ~snapPointsProp.given
    THEN Logged(S, "warn", snapIndex, 0, FALSE)
    ELSE IF ~HasSnapPoint(sh, snapIndex)
    THEN Logged(S, "warn", snapIndex, 0, FALSE)
    ELSE IF snapIndex = 0
    THEN Logged(S, "onClose", 0, 0, FALSE)
    ELSE IF immediate
    THEN updateSnap(Logged([S EXCEPT !.y = getSnapPoint(sh, snapIndex).snapValueY],
                           "y.set", getSnapPoint(sh, snapIndex).snapValueY, 0, FALSE),
                    snapIndex, 0)
    ELSE animate(S, getSnapPoint(sh, snapIndex).snapValueY, snapIndex, 0)

(***************************************************************************)
(* The effects the Sheet hands to useSheetState                            *)
(***************************************************************************)
\* onOpen: () => new Promise(...), the part that runs at once
onOpen(S, h) ==
    LET S1 == clearYListeners(S)
        S2 == yStop([S1 EXCEPT !.osr = "opening"])
        S3 == Logged(S2, "onOpenStart", 0, h, FALSE)
    IN [S3 EXCEPT !.yl = [kind |-> "open", h |-> h], !.eff[h].wait = TRUE]

\* waitForElement('react-modal-sheet-container').then(() => ...)
waitForElementThen(S, sh, h) ==
    LET st == S.eff[h].stale
        S0 == [S EXCEPT !.eff[h].wait = FALSE]
    IN IF ~(initialSnap # Undefined /\ HasSnapPoint(sh, initialSnap))
       THEN LET S1 == Logged(S0, "warn", 0, h, st)
                S2 == Logged(clearYListeners(S1), "clearYListeners", 0, h, st)
            IN resolve(handleOpenEnd(S2, h), h)
       ELSE animate(S0, getSnapPoint(sh, initialSnap).snapValueY, Undefined, h)

\* onClosing: () => new Promise(...)
onClosing(S, sh, h) ==
    LET S1 == yStop(clearYListeners(S))
        S2 == Logged([S1 EXCEPT !.osr = "closing"], "onCloseStart", 0, h, FALSE)
        S3 == [S2 EXCEPT !.yl = [kind |-> "close", h |-> h]]
    IN animate(S3, closedY(sh), Undefined, h)

(***************************************************************************)
(* useSheetState                                                           *)
(***************************************************************************)
\* (mutation) an abort() that cancels nothing
abortIgnored(S, h) == S

\* abortController.abort() on the controller of handle h
abort(S, h) ==
    IF h = 0 \/ S.eff[h].kind = "free" THEN S
    ELSE [S EXCEPT !.eff[h].aborted = TRUE]

\* useEffect(() => { abortControllerRef.current?.abort(); setState(...) }, [isOpen])
intentEffect(S, io) ==
    setState(abort(S, S.ref), IF io THEN "opening" ELSE "closing", 0)

\* return () => { abortController.abort() }
stateEffectCleanup(S) == abort(S, S.ref)

FreeId(S) == CHOOSE h \in EffIds :
                /\ S.eff[h].kind = "free"
                /\ \A g \in EffIds : S.eff[g].kind = "free" => h <= g

\* useEffect(() => { const abortController = ...; handle()... }, [state]):
\* the run of handle() up to its await.  caller is "sheet" when the callbacks
\* are those of the Sheet and "any" when they are promises of some caller.
stateEffect(S, st, sh, caller, fromClosed) ==
    LET h == FreeId(S)
        S1 == [S EXCEPT !.ref = h,
                        !.eff[h] = [Free EXCEPT !.kind = st, !.ext = (caller = "any"),
                                                !.fromClosed = fromClosed]]
    IN IF caller = "any" THEN S1
       ELSE IF st = "open" THEN onOpen(S1, h)
       ELSE IF st = "closing" THEN onClosing(S1, sh, h)
       ELSE \* onClosed and onOpening are not given: `await undefined`
            [S1 EXCEPT !.eff[h].settled = TRUE, !.eff[h].pend = "resolved"]

\* (mutation) a handle() that advances the state although its callback rejected
handleContinueAdvancing(S, h, st) ==
    LET e == S.eff[h]
        S1 == [S EXCEPT !.eff[h].pend = "none", !.eff[h].settled = TRUE]
    IN IF e.pend = "rejected" /\ e.kind \in Transient /\ ~e.aborted
       THEN setState(Logged([S1 EXCEPT !.stuck = (e.kind = st /\ ~e.stale)],
                            "caught", 0, h, e.stale),
                     IF e.kind = "opening" THEN "open" ELSE "closed", h)
       ELSE IF e.kind = "opening" /\ ~e.aborted THEN setState(S1, "open", h)
       ELSE IF e.kind = "closing" /\ ~e.aborted THEN setState(S1, "closed", h)
       ELSE Logged(S1, IF e.kind \in Transient THEN "skipped" ELSE "settled", 0, h, e.stale)

\* handle() after its await, and the .catch of the promise it returns
handleContinue(S, h, st) ==
    LET e == S.eff[h]
        S1 == [S EXCEPT !.eff[h].pend = "none", !.eff[h].settled = TRUE]
    IN IF e.pend = "rejected"
       THEN Logged([S1 EXCEPT !.stuck = (@ \/ (e.kind \in Transient /\ e.kind = st
                                                /\ ~e.aborted /\ ~e.stale))],
                   "caught", 0, h, e.stale)
       ELSE IF e.kind = "opening" /\ ~e.aborted THEN setState(S1, "open", h)
       ELSE IF e.kind = "closing" /\ ~e.aborted THEN setState(S1, "closed", h)
       ELSE Logged(S1, IF e.kind \in Transient THEN "skipped" ELSE "settled", 0, h, e.stale)

\* a handle() run that nothing can reach any more is forgotten
Unreachable(S, h) ==
    LET e == S.eff[h]
    IN /\ e.kind # "free"
       /\ e.pend = "none"
       /\ ~e.wait
       /\ S.yl.h # h
       /\ e.settled \/ ~e.ext

Collect(S) ==
    LET dead == {h \in EffIds : Unreachable(S, h)}
    IN [S EXCEPT !.eff = [h \in EffIds |-> IF h \in dead THEN Free ELSE S.eff[h]],
                 !.ref = IF S.ref \in dead THEN 0 ELSE S.ref]

\* (history) every handle() run alive when a commit sees isOpen or state change
MarkStale(S) ==
    [S EXCEPT !.eff = [h \in EffIds |->
        IF S.eff[h].kind = "free" THEN S.eff[h] ELSE [S.eff[h] EXCEPT !.stale = TRUE]]]

(***************************************************************************)
(* The keyboard effect of the Sheet                                        *)
(***************************************************************************)
NoCleanup == -2
lastSnapPointIndex(sh) == Len(snapPoints(sh)) - 1

\* does useEffect(..., [keyboard.isKeyboardOpen]) reach handleKeyboardOpen, and
\* does the default handler go on to snap
KeyboardSnaps(S, sh, cs, kb) ==
    /\ S.osr = "open"
    /\ kb
    /\ ~(cs # Undefined /\ cs = lastSnapPointIndex(sh))

\* handleKeyboardOpen() without an onKeyboardOpen prop: the heap it leaves
handleKeyboardOpen(S, sh, cs, kb) ==
    IF KeyboardSnaps(S, sh, cs, kb)
    THEN snapTo(S, sh, lastSnapPointIndex(sh), TRUE)
    ELSE S

\* ... and the cleanup it returns: the snap index to restore
handleKeyboardOpenCleanup(S, sh, cs, kb) ==
    IF KeyboardSnaps(S, sh, cs, kb) THEN cs ELSE NoCleanup

\* (mutation) a cleanup that forgets the snap point to restore
keyboardRestoreNothing(S, sh, k) == S

\* return () => { currentSnapPoint !== undefined && snapTo(currentSnapPoint, ...) }
keyboardRestore(S, sh, k) ==
    IF k = NoCleanup \/ k = Undefined THEN S ELSE snapTo(S, sh, k, TRUE)

\* useEffect(() => { ... animate(y, currentSnapPointY) }, [currentSnapPointY])
snapFollowEffect(S, snapY) ==
    IF snapY = Undefined \/ S.osr # "open" THEN S
    ELSE animate(S, snapY, Undefined, 0)

(***************************************************************************)
(* One render and its commit                                               *)
(***************************************************************************)
Last(q) == q[Len(q)]
Recent(hs) == IF Len(hs) > HistLen THEN SubSeq(hs, Len(hs) - HistLen + 1, Len(hs)) ELSE hs

NextState(S) == IF S.queue = <<>> THEN state ELSE Last(S.queue)
NextSnap(S) == IF S.snapQ = NoUpdate THEN currentSnap ELSE S.snapQ
NextHist(S) == IF NextState(S) # state THEN Recent(Append(hist, NextState(S))) ELSE hist

\* the two effects of useSheetState for a render with state st1 and isOpen io:
\* the cleanup of the [state] effect, then the bodies in the order of the hook
HookCommit(S, st1, io, sh, caller, fromClosed) ==
    LET ioCh == ~mounted \/ io # seenIsOpen
        stCh == ~mounted \/ st1 # state
        S1 == IF mounted /\ (ioCh \/ stCh) THEN MarkStale(S) ELSE S
        S2 == IF mounted /\ stCh THEN stateEffectCleanup(S1) ELSE S1
        S3 == IF ioCh THEN intentEffect(S2, io) ELSE S2
    IN IF stCh THEN stateEffect(S3, st1, sh, caller, fromClosed) ELSE S3

\* the render takes the pending updates
Rendered(S) ==
    [S EXCEPT !.queue = <<>>, !.snapQ = NoUpdate,
              !.stuck = IF NextState(S) # state THEN FALSE ELSE @]

\* the effects of the Sheet in the order of its hooks.  (React runs the cleanups
\* of a commit before its bodies; the one cleanup of useSheetState only sets an
\* aborted flag that no body of the same commit reads, so it is run with its hook.)
SheetCommit(S, io, sh, kb) ==
    LET cs1 == NextSnap(S)
        snapY1 == currentSnapPointY(sh, cs1)
        kbCh == ~mounted \/ kb # kbOpen
        yCh == ~mounted \/ snapY1 # seenSnapY
        S1 == IF kbCh THEN keyboardRestore(Rendered(S), sh, kbCleanup) ELSE Rendered(S)
        S2 == IF kbCh THEN handleKeyboardOpen(S1, sh, cs1, kb) ELSE S1
        S3 == IF yCh THEN snapFollowEffect(S2, snapY1) ELSE S2
    IN Collect(HookCommit(S3, NextState(S), io, sh, "sheet",
                          NextHist(S) = <<"closed", "opening", "open">>))

NextCleanup(S, sh, kb) ==
    IF ~mounted \/ kb # kbOpen
    THEN handleKeyboardOpenCleanup(keyboardRestore(Rendered(S), sh, kbCleanup), sh,
                                   NextSnap(S), kb)
    ELSE kbCleanup

(***************************************************************************)
(* Steps                                                                   *)
(***************************************************************************)
\* a continuation after an await is queued: it runs before any event or timer
MicroPending == \E h \in EffIds : eff[h].pend # "none"

Store(S) ==
    /\ Len(S.queue) <= MaxQueue
    /\ y' = S.y
    /\ anim' = S.anim
    /\ openStateRef' = S.osr
    /\ yListeners' = S.yl
    /\ eff' = S.eff
    /\ abortControllerRef' = S.ref
    /\ queue' = S.queue
    /\ snapQ' = S.snapQ
    /\ stuck' = S.stuck
    /\ log' = S.log

Props == <<snapPointsProp, initialSnap>>

\* useSnapOnFocus, useVirtualKeyboard and the drag handlers
FocusVars == <<focus, focusHook, cleanup, restores>>
KeyboardVars == <<focusedElementRef, debounceTimer, keyboardState, keyboardInset, platform>>
DragVars == <<yUnconstrainedRef, dragRaw, disableDismiss>>
\* the calls of the pure functions and the debounced callbacks
UtilVars == <<call, ret, debounce, ran, poll>>

\* a render of the Sheet with measured height sh and keyboard signal kb
RenderWith(sh, kb) ==
    /\ \E h \in EffIds : eff[h].kind = "free"
    /\ Store(SheetCommit(Heap, isOpen, sh, kb))
    /\ renders' = Min(renders + 1, 2)
    /\ seenIsOpen' = isOpen
    /\ state' = NextState(Heap)
    /\ hist' = NextHist(Heap)
    /\ currentSnap' = NextSnap(Heap)
    /\ seenSnapY' = currentSnapPointY(sh, NextSnap(Heap))
    /\ sheetHeight' = sh
    /\ kbOpen' = kb
    /\ kbCleanup' = NextCleanup(Heap, sh, kb)
    /\ UNCHANGED <<isOpen, flipped, Props>>

\* the parent changes the isOpen prop
Flip ==
    /\ mounted /\ ~MicroPending
    /\ isOpen' = ~isOpen
    /\ flipped' = TRUE
    /\ log' = <<>>
    /\ UNCHANGED <<seenIsOpen, renders, state, queue, eff, abortControllerRef, y, anim,
                   openStateRef, yListeners, currentSnap, snapQ, sheetHeight, seenSnapY,
                   kbOpen, kbCleanup, Props, hist, stuck, FocusVars, KeyboardVars,
                   DragVars, UtilVars>>

\* a render is due: the first one, or a prop or a state has changed
RenderDue == ~mounted \/ isOpen # seenIsOpen \/ queue # <<>> \/ snapQ # NoUpdate

\* React renders the Sheet: the first time, or because a prop or a state changed
Render ==
    /\ RenderDue
    /\ RenderWith(sheetHeight, kbOpen)
    /\ UNCHANGED <<FocusVars, KeyboardVars, DragVars, UtilVars>>

\* useMeasure reports the height of the container, once the children (and the
\* container among them) are rendered; the content keeps its size afterwards
Measure ==
    /\ mounted /\ ~MicroPending
    /\ sheetHeight = 0
    /\ state # "closed"
    /\ RenderWith(SheetH, kbOpen)
    /\ UNCHANGED <<FocusVars, KeyboardVars, DragVars, UtilVars>>

\* useVirtualKeyboard reports another isKeyboardOpen (it listens while isOpen)
KeyboardChange ==
    /\ mounted /\ ~MicroPending
    /\ seenIsOpen
    /\ kbOpen \/ state # "closed"
    /\ RenderWith(sheetHeight, ~kbOpen)
    /\ UNCHANGED <<FocusVars, KeyboardVars, DragVars, UtilVars>>

Frame == <<isOpen, flipped, seenIsOpen, renders, state, currentSnap, sheetHeight, seenSnapY,
           kbOpen, kbCleanup, Props, hist, FocusVars, KeyboardVars, DragVars, UtilVars>>

\* the continuation of handle() h of the Sheet runs
Microtask ==
    \E h \in EffIds :
        /\ eff[h].pend # "none" /\ ~eff[h].ext
        /\ Store(Collect(handleContinue(Heap, h, state)))
        /\ UNCHANGED Frame

\* the animation of y ends by itself: its onComplete, then 'animationComplete'
AnimationComplete ==
    /\ ~MicroPending
    /\ anim # Stopped
    /\ LET S1 == [Heap EXCEPT !.y = anim.to, !.anim = Stopped]
           S2 == IF anim.snap # Undefined THEN updateSnap(S1, anim.snap, 0) ELSE S1
       IN Store(Collect(Notify(Logged(S2, "complete", anim.to, 0, FALSE),
                               "animationComplete")))
    /\ UNCHANGED Frame

\* the waitForElement poll of an open effect resolves
WaitForElementDone ==
    \E h \in EffIds :
        /\ ~MicroPending
        /\ eff[h].wait
        /\ Store(Collect(waitForElementThen(Heap, sheetHeight, h)))
        /\ UNCHANGED Frame

\* the sheet's user calls ref.snapTo(i) or ref.snapTo(i, { immediate: true })
SnapIndexes == -1..(Len(SnapPointValues) + 1)

SnapTo ==
    \E i \in SnapIndexes, immediate \in BOOLEAN :
        /\ mounted /\ ~MicroPending
        /\ Store(Collect(snapTo(Logged(Heap, IF immediate THEN "snapToNow" ELSE "snapTo",
                                       i, 0, FALSE),
                                sheetHeight, i, immediate)))
        /\ UNCHANGED Frame

\* the props of the modelled sheets: no snap points, or snap points with or
\* without an initial snap index
PropsGiven ==
    {<<[given |-> FALSE, values |-> <<>>], Undefined>>,
     <<[given |-> TRUE, values |-> SnapPointValues], Undefined>>,
     <<[given |-> TRUE, values |-> SnapPointValues], 0>>,
     <<[given |-> TRUE, values |-> SnapPointValues], 1>>}

NoElement == "none"
NoKeyboard == [isVisible |-> FALSE, height |-> 0]
NoDrag == [set |-> FALSE, v |-> 0]

\* nothing is focused, useSnapOnFocus has not run and no restore exists
FocusInit ==
    /\ focus = "out"
    /\ focusHook = "idle"
    /\ cleanup = 0
    /\ restores = <<>>

\* useState({ isVisible: false, height: 0 }), useRef(null), useRef(null)
KeyboardInit ==
    /\ focusedElementRef = NoElement
    /\ debounceTimer = FALSE
    /\ keyboardState = NoKeyboard
    /\ keyboardInset = 0
    /\ platform = [api |-> "vk", height |-> 0]

\* useRef(undefined), disableDismiss = false
DragInit ==
    /\ yUnconstrainedRef = NoDrag
    /\ dragRaw = [y0 |-> 0, sum |-> 0]
    /\ disableDismiss = FALSE

\* no function has been called
NoCall == [fn |-> "none", nums |-> <<>>, arr |-> <<>>,
           axis |-> [hasMin |-> FALSE, min |-> 0, hasMax |-> FALSE, max |-> 0],
           elastic |-> [given |-> FALSE, min |-> 0, max |-> 0]]
\* what a call returned: a number, a list of snap points or a boolean
NoRet == [num |-> 0, points |-> <<>>, ok |-> FALSE]
\* the debounced callbacks: of useResizeObserver, of onScroll in
\* useScrollPosition and of updateKeyboardState in useVirtualKeyboard
Ops == {"resize", "scroll", "keyboard"}
\* on       the effect has subscribed and not cleaned up
\* pending  the data of the timers set and neither fired nor cleared, oldest first
\* refLive  the timer the ref (or `let scrollTimeout`) names is pending
\* burst    (history) the data of the triggers since no timer was pending
Detached == [on |-> FALSE, pending |-> <<>>, refLive |-> FALSE, burst |-> <<>>]
\* let attempts = 0; no element of the class in the document; the promise pending
NoPoll == [attempts |-> 0, element |-> FALSE, resolved |-> 0, got |-> FALSE]
UtilInit ==
    /\ poll = NoPoll
    /\ call = NoCall
    /\ ret = NoRet
    /\ debounce = [op \in Ops |-> Detached]
    /\ ran = <<>>

SheetInit ==
    /\ isOpen \in BOOLEAN
    /\ seenIsOpen = isOpen
    /\ renders = 0
    /\ state = IF isOpen THEN "opening" ELSE "closed"
    /\ queue = <<>>
    /\ eff = [h \in EffIds |-> Free]
    /\ abortControllerRef = 0
    /\ sheetHeight = 0
    /\ y = closedY(0)
    /\ anim = Stopped
    /\ openStateRef = IF isOpen THEN "opening" ELSE "closed"
    /\ yListeners = NoListener
    /\ \E p \in PropsGiven : snapPointsProp = p[1] /\ initialSnap = p[2]
    /\ currentSnap = initialSnap
    /\ snapQ = NoUpdate
    /\ seenSnapY = Undefined
    /\ kbOpen = FALSE
    /\ kbCleanup = NoCleanup
    /\ hist = <<state>>
    /\ flipped = FALSE
    /\ stuck = FALSE
    /\ log = <<>>

Init ==
    /\ SheetInit
    /\ FocusInit
    /\ KeyboardInit
    /\ DragInit
    /\ UtilInit

TypeOK ==
    /\ state \in SheetState
    /\ openStateRef \in SheetState
    /\ y \in (0 - 2)..(windowHeight + 2)
    /\ Len(queue) <= MaxQueue

(***************************************************************************)
(* The lifecycle of the Sheet: the parent flips isOpen, React renders, the *)
(* container is measured, animations and polls end                         *)
(***************************************************************************)
Next ==
    \/ Flip
    \/ Render
    \/ Measure
    \/ Microtask
    \/ AnimationComplete
    \/ WaitForElementDone

Spec == Init /\ [][Next]_vars

\* the sheet is at rest: no render is due, no continuation is queued, no
\* animation runs, no poll is pending and the container is measured
AtRest ==
    /\ mounted
    /\ ~RenderDue
    /\ ~MicroPending
    /\ anim = Stopped
    /\ \A h \in EffIds : ~eff[h].wait
    /\ ~(sheetHeight = 0 /\ state # "closed")

\* at rest nothing happens until the parent changes isOpen: whatever fairness
\* is assumed of renders, continuations, animations and timers, a sheet at rest
\* stays as it is for as long as isOpen is constant
AtRestOnlyFlips == [][AtRest => isOpen' # isOpen]_vars

(***************************************************************************)
(* The sheet in use: the lifecycle with one change of isOpen by the parent,*)
(* calls of ref.snapTo and the virtual keyboard                            *)
(***************************************************************************)
FlipOnce == ~flipped /\ Flip

SnapNext ==
    \/ FlipOnce
    \/ Render
    \/ Measure
    \/ KeyboardChange
    \/ SnapTo
    \/ Microtask
    \/ AnimationComplete
    \/ WaitForElementDone

SpecSnap == Init /\ [][SnapNext]_vars

(***************************************************************************)
(* useSheetState on its own: the four callbacks are promises of some       *)
(* caller, which settle whenever that caller likes                         *)
(***************************************************************************)
SheetVars == <<y, anim, openStateRef, yListeners, currentSnap, snapQ, sheetHeight,
               seenSnapY, kbOpen, kbCleanup, Props, FocusVars, KeyboardVars, DragVars, UtilVars>>

HookStore(S) ==
    /\ Len(S.queue) <= MaxQueue
    /\ eff' = S.eff
    /\ abortControllerRef' = S.ref
    /\ queue' = S.queue
    /\ stuck' = S.stuck
    /\ log' = S.log
    /\ UNCHANGED SheetVars

\* React renders the component that uses the hook
HookRender ==
    /\ ~mounted \/ isOpen # seenIsOpen \/ queue # <<>>
    /\ \E h \in EffIds : eff[h].kind = "free"
    /\ HookStore(Collect(HookCommit(Rendered(Heap), NextState(Heap), isOpen, 0, "any",
                                    FALSE)))
    /\ renders' = Min(renders + 1, 2)
    /\ seenIsOpen' = isOpen
    /\ state' = NextState(Heap)
    /\ hist' = NextHist(Heap)
    /\ UNCHANGED <<isOpen, flipped>>

\* the promise a handle() run awaits is resolved, and the run continues
EffectResolve ==
    \E h \in EffIds :
        /\ eff[h].kind # "free" /\ eff[h].ext /\ ~eff[h].settled
        /\ HookStore(Collect(handleContinue(resolve(Heap, h), h, state)))
        /\ UNCHANGED <<isOpen, flipped, seenIsOpen, renders, state, hist>>

\* the promise a handle() run awaits is rejected, and .catch takes the error
EffectReject ==
    \E h \in EffIds :
        /\ eff[h].kind # "free" /\ eff[h].ext /\ ~eff[h].settled
        /\ HookStore(Collect(handleContinue(reject(Heap, h), h, state)))
        /\ UNCHANGED <<isOpen, flipped, seenIsOpen, renders, state, hist>>

HookInit ==
    /\ Init
    /\ ~snapPointsProp.given

HookNext == Flip \/ HookRender \/ EffectResolve \/ EffectReject

SpecHook == HookInit /\ [][HookNext]_vars

(***************************************************************************)
(* Claims about useSheetState                                              *)
(***************************************************************************)
LogHas(c) == \E i \in 1..Len(log) : log[i].c = c
Alive == {h \in EffIds : eff[h].kind # "free"}

\* C2: the completion of an effect calls setState only while its cancellation
\* token is current: an effect that a later commit has overtaken (isOpen or state
\* changed after it started) never calls setState when it completes, and at most
\* one effect that is not cancelled exists at any time.
C2_StaleCompletionIsNoOp ==
    /\ \A i \in 1..Len(log) :
          (log[i].c = "setState" /\ log[i].h # 0) => ~log[i].stale
    /\ \A h \in Alive : eff[h].stale => eff[h].aborted
    /\ Cardinality({h \in Alive : ~eff[h].aborted}) <= 1

\* a cancelled opening or closing effect has completed, and did not call setState
C2_Witness ==
    \E i \in 1..Len(log) : log[i].c = "skipped" /\ log[i].stale

\* the changes of state the transition table allows
Edges == {<<"closed", "opening">>, <<"opening", "open">>, <<"opening", "closing">>,
          <<"open", "closing">>, <<"closing", "closed">>, <<"closing", "opening">>}

\* C3: once the mount-time effects have run and the render they asked for is
\* done, every change of the state follows an edge of the transition table.
C3_OnlyTableEdges ==
    [][(renders >= 2 /\ state' # state) => <<state, state'>> \in Edges]_vars

Opposite(st) == IF st = "opening" THEN "closing" ELSE "opening"

\* C7: when the effect of opening or closing rejects, the error is caught and
\* setState is not called; the state then leaves that transient state only for
\* the opposite one, which the isOpen effect asks for, with a handle() run whose
\* token is fresh.
C7_RejectionDoesNotAdvance ==
    /\ [](LogHas("caught") => ~LogHas("setState"))
    /\ [](stuck => state \in Transient)
    /\ [][(stuck /\ state' # state) =>
            /\ state' = Opposite(state)
            /\ eff'[abortControllerRef'].kind = state'
            /\ ~eff'[abortControllerRef'].aborted]_vars

\* the effect of the current transient state has rejected and the state is held
C7_Witness == stuck /\ state \in Transient /\ queue = <<>>

(***************************************************************************)
(* Claims about the lifecycle of the Sheet                                 *)
(***************************************************************************)
\* what an open effect does once it may end
OpenPostconditions ==
    {"setCurrentSnap", "onSnap", "onOpenEnd", "openStateRef:=open", "animate",
     "clearYListeners"}

CountLog(c) == Cardinality({i \in 1..Len(log) : log[i].c = c})

\* C1: an open effect started from closed and overtaken by a flip back to false
\* runs none of its post-conditions afterwards (no updateSnap(initialSnap)/onSnap,
\* no onOpenEnd, no openStateRef := 'open', no animation towards the initial snap
\* point, no removal of the close effect's listeners), and a commit starts at
\* most one close effect.
C1_StaleOpenEffectIsInert ==
    /\ \A i \in 1..Len(log) :
          (log[i].kind = "open" /\ log[i].fromClosed /\ log[i].stale)
             => log[i].c \notin OpenPostconditions
    /\ CountLog("onCloseStart") <= 1

\* C4: mounted with isOpen = false, the lifecycle is closed and stays closed
\* until isOpen first becomes true: no close effect starts and the content is
\* not mounted.
C4_ClosedUntilFirstOpened ==
    (~flipped /\ ~isOpen) =>
        /\ state = "closed"
        /\ openStateRef = "closed"
        /\ anim = Stopped
        /\ ~LogHas("onCloseStart")

\* C5: the open effect (onOpenStart and the open animation) starts on entry into
\* opening, and the reported state is open only once that effect has ended:
\* never while openStateRef still says opening.
C5_OpenOnlyAfterOpenEffect ==
    /\ LogHas("onOpenStart") => state = "opening"
    /\ state = "open" => openStateRef # "opening"

\* C6: when isOpen has changed and stays constant, the lifecycle rests in the
\* matching state only: open for true, closed for false.  By AtRestOnlyFlips a
\* sheet at rest never moves again while isOpen is constant, so wherever the
\* sheet is at rest after a change of isOpen the state matches isOpen.
C6_RestsWhereIntentIs ==
    (AtRest /\ flipped) =>
        IF isOpen THEN state = "open" /\ openStateRef = "open"
                  ELSE state = "closed" /\ openStateRef = "closed"

(***************************************************************************)
(* Claims about snapTo and the keyboard                                    *)
(***************************************************************************)
\* what a step has logged
Has(l, c) == \E i \in 1..Len(l) : l[i].c = c
Count(l, c) == Cardinality({i \in 1..Len(l) : l[i].c = c})

\* the step is the call snapTo(i) or snapTo(i, { immediate: true })
SnapToCalled(l, i) == l # <<>> /\ l[1].c \in {"snapTo", "snapToNow"} /\ l[1].a = i

\* the call left y, its animation and currentSnap alone
SnapUntouched ==
    /\ y' = y
    /\ anim' = anim
    /\ snapQ' = snapQ
    /\ currentSnap' = currentSnap
    /\ ~Has(log', "animate") /\ ~Has(log', "y.set") /\ ~Has(log', "setCurrentSnap")

\* C8 as stated: with the snapPoints prop, snapTo(0) calls onClose exactly once
\* and neither sets nor animates y nor changes currentSnap, in every reachable
\* state of the sheet.
C8_SnapToZeroCloses ==
    [][(snapPointsProp.given /\ SnapToCalled(log', 0)) =>
            (Count(log', "onClose") = 1 /\ SnapUntouched)]_vars

\* C8 amended: with the snapPoints prop and a measured sheet (the computed list
\* of snap points is not empty), snapTo(0) calls onClose exactly once and
\* neither sets nor animates y nor changes currentSnap; while the list is empty
\* snapTo(0) only warns.
C8_SnapToZeroClosesWhenMeasured ==
    [][(snapPointsProp.given /\ SnapToCalled(log', 0)) =>
            /\ SnapUntouched
            /\ Count(log', "onClose") = (IF snapPoints(sheetHeight) # <<>> THEN 1 ELSE 0)
            /\ Has(log', "warn") = (snapPoints(sheetHeight) = <<>>)]_vars

\* snapTo(0) has been called on an open, measured sheet and has called onClose
C8_Witness ==
    /\ snapPointsProp.given /\ SnapToCalled(log, 0)
    /\ state = "open" /\ sheetHeight > 0
    /\ Has(log, "onClose")

\* C9: snapTo(i) with i < 0 or i >= the number of snap points, or without the
\* snapPoints prop, warns and does nothing else: y, currentSnap and the lifecycle
\* state are unchanged and neither onSnap nor onClose is called.
C9_InvalidSnapToIsNoOp ==
    [][\A i \in SnapIndexes :
          (SnapToCalled(log', i)
             /\ (~snapPointsProp.given \/ i < 0 \/ i >= Len(snapPoints(sheetHeight))))
          => /\ Has(log', "warn")
             /\ SnapUntouched
             /\ ~Has(log', "onSnap") /\ ~Has(log', "onClose")
             /\ state' = state /\ queue' = queue /\ openStateRef' = openStateRef]_vars

\* snapTo was called with an index past the last snap point of a measured sheet
C9_Witness ==
    /\ snapPointsProp.given /\ sheetHeight > 0
    /\ SnapToCalled(log, Len(snapPoints(sheetHeight)))
    /\ Has(log, "warn")

\* the sheet rests open at snap index k
RestsAt(k) ==
    /\ AtRest
    /\ state = "open" /\ openStateRef = "open"
    /\ currentSnap = k
    /\ HasSnapPoint(sheetHeight, k)

\* the keyboard becomes visible while the sheet rests at k, not the fullest:
\* y is set at once to the fullest snap point, currentSnap is set to the last
\* index and k is remembered
KeyboardShows(k) ==
    (~kbOpen /\ kbOpen' /\ RestsAt(k) /\ k # lastSnapPointIndex(sheetHeight)) =>
        /\ y' = getSnapPoint(sheetHeight, lastSnapPointIndex(sheetHeight)).snapValueY
        /\ snapQ' = lastSnapPointIndex(sheetHeight)
        /\ anim' = Stopped /\ ~Has(log', "animate")
        /\ kbCleanup' = k

\* the keyboard becomes hidden again with the snap index k remembered: y is set
\* at once to the snap point k and currentSnap is set to k
KeyboardHides(k) ==
    (kbOpen /\ ~kbOpen' /\ kbCleanup = k /\ HasSnapPoint(sheetHeight, k)) =>
        /\ y' = getSnapPoint(sheetHeight, k).snapValueY
        /\ snapQ' = k

\* C10 as stated: for every snap index k other than the fullest.
C10_KeyboardResnapsAndRestores ==
    [][\A k \in 0..Len(SnapPointValues) : KeyboardShows(k) /\ KeyboardHides(k)]_vars

\* C10 amended: for every snap index k other than 0 and the fullest; a sheet that
\* rested at index 0 is asked to close (onClose) when the keyboard hides.
C10_KeyboardResnapsAndRestoresAboveZero ==
    [][/\ \A k \in 0..Len(SnapPointValues) : KeyboardShows(k)
       /\ \A k \in 1..Len(SnapPointValues) : KeyboardHides(k)
       /\ (kbOpen /\ ~kbOpen' /\ kbCleanup = 0 /\ HasSnapPoint(sheetHeight, 0)) =>
              (Has(log', "onClose") /\ ~Has(log', "y.set"))]_vars

\* the keyboard has hidden and the sheet is back at the remembered index 1
C10_Witness ==
    /\ ~kbOpen /\ kbCleanup = NoCleanup
    /\ log # <<>> /\ log[1].c = "y.set"
    /\ HasSnapPoint(sheetHeight, 1)
    /\ y = getSnapPoint(sheetHeight, 1).snapValueY
    /\ snapQ = 1

(***************************************************************************)
(* The drag handlers of the Sheet.  The caller's onDrag, onDragStart and   *)
(* onDragEnd do not call preventDefault.                                   *)
(***************************************************************************)
\* the props dragVelocityThreshold (px/s) and dragCloseThreshold (a fraction of
\* the sheet height) of the modelled sheet
dragVelocityThreshold == 500
dragCloseThreshold == [num |-> 1, den |-> 2]
\* info.velocity.y at the release, and info.delta.y of one pointer move
Velocities == {0 - 600, 0, 500, 600}
Deltas == {0 - 10, 0 - 2, 2, 10}
\* how far beyond a constraint the pointer is followed
MaxOver == 20

\* const dragConstraints: Axis = { min, max }, detent 'default', no insets
dragConstraints == [min |-> safeSpaceTop, max |-> windowHeight - safeSpaceBottom]

\* applyConstraints(point, dragConstraints, { min: 0.1, max: 0.1 }); the moves of
\* the model keep a point beyond a bound at a multiple of ten pixels from it
applyConstraints(point, c) ==
    IF point < c.min THEN c.min + ((point - c.min) \div 10)
    ELSE IF point > c.max THEN c.max + ((point - c.max) \div 10)
    ELSE point

\* (mutation) an onDrag that integrates the deltas from the rendered y
nextFromRendered(unconstrained, rendered, delta) == rendered + delta

\* const nextY = currentY + info.delta.y
nextUnconstrained(unconstrained, rendered, delta) == unconstrained + delta

\* const onDragStart = ...: the heap it leaves (yUnconstrainedRef is set by the step)
onDragStart(S) == yStop(Logged(S, "onDragStart", 0, 0, FALSE))

\* if (velocity > 0) indicatorRotation.set(10); if (velocity < 0) indicatorRotation.set(-10)
rotate(S, velocity) ==
    IF velocity > 0 THEN Logged(S, "indicatorRotation.set", 10, 0, FALSE)
    ELSE IF velocity < 0 THEN Logged(S, "indicatorRotation.set", 0 - 10, 0, FALSE)
    ELSE S

\* const onDrag = ...; velocity is y.getVelocity().  A call that returns at its
\* first line is logged as "onDragIgnored"
onDrag(S, yu, delta, velocity) ==
    IF ~yu.set THEN Logged(S, "onDragIgnored", delta, 0, FALSE)
    ELSE LET constrainedY == applyConstraints(nextUnconstrained(yu.v, S.y, delta),
                                              dragConstraints)
             S1 == rotate(Logged(S, "onDrag", delta, 0, FALSE), velocity)
         IN Logged([S1 EXCEPT !.y = constrainedY], "y.set", constrainedY, 0, FALSE)

\* handleHighVelocityDrag({ snapPoints, dragDirection }) of './snap': the indexes
\* it can return, one step in the direction from some resting index
handleHighVelocityDrag(sps, dragDirection) ==
    IF Len(sps) <= 1 THEN {0}
    ELSE IF dragDirection = "down" THEN 0..(Len(sps) - 2)
    ELSE 1..(Len(sps) - 1)

Abs(n) == IF n < 0 THEN 0 - n ELSE n

\* (mutation) a low-velocity drag that always returns to the current snap point
handleLowVelocityDragStays(cur, currentY, dragDirection, sps) == cur.snapIndex

\* handleLowVelocityDrag({ currentSnapPoint, currentY, dragDirection, snapPoints })
\* of './snap': the index it returns
handleLowVelocityDrag(cur, currentY, dragDirection, sps) ==
    LET beyond == {i \in 1..Len(sps) :
                     IF dragDirection = "down" THEN sps[i].snapValueY > cur.snapValueY
                     ELSE sps[i].snapValueY < cur.snapValueY}
        crossed == {i \in beyond :
                      IF dragDirection = "down"
                      THEN 2 * currentY > cur.snapValueY + sps[i].snapValueY
                      ELSE 2 * currentY < cur.snapValueY + sps[i].snapValueY}
        nearest == {i \in crossed : \A j \in crossed :
                      Abs(sps[i].snapValueY - currentY) <= Abs(sps[j].snapValueY - currentY)}
    IN IF crossed = {} THEN cur.snapIndex
       ELSE sps[CHOOSE i \in nearest : \A j \in nearest :
                   Abs(sps[i].snapValueY - cur.snapValueY)
                     <= Abs(sps[j].snapValueY - cur.snapValueY)].snapIndex

\* (mutation) a drag end that closes on the release velocity alone
crossedCloseThresholdOnVelocity(currentY, sh, velocity) ==
    velocity > dragVelocityThreshold

\* info.velocity.y > dragVelocityThreshold || currentY > sheetHeight * dragCloseThreshold
crossedCloseThreshold(currentY, sh, velocity) ==
    \/ velocity > dragVelocityThreshold
    \/ currentY * dragCloseThreshold.den > sh * dragCloseThreshold.num

\* (mutation) a drag end that does not look at disableDismiss before it snaps
preventsDismissNever(dd, yTo, sh) == FALSE

\* if (disableDismiss && yTo + 1 >= sheetHeight)
preventsDismiss(dd, yTo, sh) == dd /\ yTo + 1 >= sh

\* snapPoints.find((s) => s.snapValue > 0): its index + 1, or 0
bottomSnapPoint(sps) ==
    IF \E i \in 1..Len(sps) : sps[i].snapValue > 0
    THEN CHOOSE i \in 1..Len(sps) :
            /\ sps[i].snapValue > 0
            /\ \A j \in 1..(i - 1) : ~(sps[j].snapValue > 0)
    ELSE 0

\* const onDragEnd = ...; info: velocity and offset of the release, high: what
\* handleHighVelocityDrag returns if it is called
onDragEnd(S, sh, cs, dd, info, high) ==
    LET currentY == S.y
        sps == snapPoints(sh)
        hasPoint == cs # Undefined /\ HasSnapPoint(sh, cs)
        offsetDirection == IF info.offset > 0 THEN "down" ELSE "up"
        isHighVelocity == Abs(info.velocity) > dragVelocityThreshold
        result == IF isHighVelocity THEN high
                  ELSE handleLowVelocityDrag(getSnapPoint(sh, cs), currentY,
                                             offsetDirection, sps)
        resultY == sps[result + 1].snapValueY
        bottom == bottomSnapPoint(sps)
        S0 == Logged(S, "onDragEnd", info.velocity, 0, FALSE)
        yTo == IF hasPoint
               THEN IF preventsDismiss(dd, resultY, sh)
                    THEN IF bottom # 0 THEN sps[bottom].snapValueY ELSE currentY
                    ELSE resultY
               ELSE IF crossedCloseThreshold(currentY, sh, info.velocity)
                    THEN IF dd THEN 0 ELSE closedY(sh)
                    ELSE 0
        S1 == IF hasPoint
              THEN IF preventsDismiss(dd, resultY, sh)
                   THEN IF bottom # 0 THEN updateSnap(S0, sps[bottom].snapIndex, 0) ELSE S0
                   ELSE updateSnap(S0, result, 0)
              ELSE S0
        S2 == animate(S1, yTo, Undefined, 0)
    IN IF yTo + 1 >= sh /\ ~dd THEN Logged(S2, "onClose", 0, 0, FALSE) ELSE S2

\* the pointer can take the sheet: its children are rendered and measured, part
\* of it is on the screen, and the keyboard does not disable the drag
\* the disableDrag prop of the modelled sheets
disableDragProp == FALSE

\* (mutation) dragging disabled by the prop alone
disableDragByProp(prop) == prop

\* const disableDrag = keyboard.isKeyboardOpen || disableDragProp
disableDrag(prop) == kbOpen \/ prop

\* the header and the content of the sheet take the drag props, the three drag
\* handlers among them, only while disableDrag is false
dragPropsGiven == ~disableDrag(disableDragProp)

CanDrag ==
    /\ mounted /\ ~MicroPending
    /\ state # "closed"
    /\ sheetHeight > 0
    /\ y < closedY(sheetHeight)
    /\ dragPropsGiven

\* (mutation) a drag start that keeps the accumulator an earlier drag left
startKeepsUnconstrained(yu, rendered) ==
    IF yu.set THEN yu ELSE [set |-> TRUE, v |-> rendered]

\* yUnconstrainedRef.current = y.get()
startUnconstrained(yu, rendered) == [set |-> TRUE, v |-> rendered]

DragFrame == <<isOpen, flipped, seenIsOpen, renders, state, currentSnap, sheetHeight,
               seenSnapY, kbOpen, kbCleanup, Props, hist, FocusVars, KeyboardVars,
               disableDismiss, UtilVars>>

DragStart ==
    /\ CanDrag
    /\ ~yUnconstrainedRef.set
    /\ Store(Collect(onDragStart(Heap)))
    /\ yUnconstrainedRef' = startUnconstrained(yUnconstrainedRef, y)
    /\ dragRaw' = [y0 |-> y, sum |-> 0]
    /\ UNCHANGED DragFrame

\* a drag starts while the accumulator of an earlier one is still set: that
\* gesture ended unheard, its drag props taken away or its end prevented by the
\* caller's handler
DragRestart ==
    /\ CanDrag
    /\ yUnconstrainedRef.set
    /\ Store(Collect(onDragStart(Heap)))
    /\ yUnconstrainedRef' = startUnconstrained(yUnconstrainedRef, y)
    /\ dragRaw' = [y0 |-> yUnconstrainedRef'.v, sum |-> 0]
    /\ UNCHANGED DragFrame

\* a pointer move reaches onDrag although no drag is in progress
StrayMove ==
    \E delta \in Deltas, velocity \in {0 - 1, 0, 1} :
        /\ CanDrag
        /\ ~yUnconstrainedRef.set
        /\ Store(onDrag(Heap, yUnconstrainedRef, delta, velocity))
        /\ UNCHANGED <<DragFrame, yUnconstrainedRef, dragRaw>>

\* one pointer move of the drag in progress
DragMove ==
    \E delta \in Deltas, velocity \in {0 - 1, 0, 1} :
        LET raw == yUnconstrainedRef.v + delta
        IN /\ yUnconstrainedRef.set
           /\ mounted /\ ~MicroPending /\ state # "closed"
           /\ dragPropsGiven
           /\ raw >= dragConstraints.min - MaxOver /\ raw <= dragConstraints.max + MaxOver
           /\ raw < dragConstraints.min => (dragConstraints.min - raw) % 10 = 0
           /\ raw > dragConstraints.max => (raw - dragConstraints.max) % 10 = 0
           /\ Store(onDrag(Heap, yUnconstrainedRef, delta, velocity))
           /\ yUnconstrainedRef' =
                 [yUnconstrainedRef EXCEPT !.v = nextUnconstrained(@, y, delta)]
           /\ dragRaw' = [dragRaw EXCEPT !.sum = @ + delta]
           /\ UNCHANGED DragFrame

\* the pointer is released
DragEnd ==
    \E velocity \in Velocities :
    \E high \in handleHighVelocityDrag(snapPoints(sheetHeight),
                                       IF velocity > 0 THEN "down" ELSE "up") :
        /\ yUnconstrainedRef.set
        /\ mounted /\ ~MicroPending /\ state # "closed"
        /\ dragPropsGiven
        /\ Store(Collect(onDragEnd(Heap, sheetHeight, currentSnap, disableDismiss,
                                   [velocity |-> velocity, offset |-> dragRaw.sum], high)))
        /\ yUnconstrainedRef' = NoDrag
        /\ dragRaw' = [y0 |-> 0, sum |-> 0]
        /\ UNCHANGED DragFrame

\* a sheet without snap points, or with snap points and resting at the first of
\* them above the closed position; with or without disableDismiss
DragSheetInit ==
    /\ SheetInit
    /\ isOpen
    /\ ~snapPointsProp.given \/ initialSnap = 1
    /\ FocusInit
    /\ KeyboardInit
    /\ yUnconstrainedRef = NoDrag
    /\ dragRaw = [y0 |-> 0, sum |-> 0]
    /\ disableDismiss \in BOOLEAN
    /\ UtilInit

DragNext ==
    \/ FlipOnce
    \/ Render
    \/ Measure
    \/ Microtask
    \/ AnimationComplete
    \/ WaitForElementDone
    \/ DragStart
    \/ DragMove
    \/ DragEnd

SpecDrag == DragSheetInit /\ [][DragNext]_vars

(***************************************************************************)
(* onDragEnd on its own: the pointer is released over an open sheet that   *)
(* rested at its snap point (at y = 0 without one) when the drag began     *)
(***************************************************************************)
\* the rendered positions a drag can reach
DragPositions ==
    (dragConstraints.min - (MaxOver \div 10))..(dragConstraints.max + (MaxOver \div 10))

DragEndInit ==
    /\ isOpen = TRUE /\ seenIsOpen = TRUE /\ renders = 2
    /\ state = "open" /\ openStateRef = "open"
    /\ queue = <<>> /\ snapQ = NoUpdate
    /\ eff = [h \in EffIds |-> Free] /\ abortControllerRef = 0
    /\ sheetHeight = SheetH
    /\ y \in DragPositions
    /\ anim = Stopped /\ yListeners = NoListener
    /\ snapPointsProp \in {p[1] : p \in PropsGiven} /\ initialSnap = Undefined
    /\ currentSnap \in IF snapPointsProp.given
                        THEN {Undefined} \cup (0..Len(SnapPointValues))
                        ELSE {Undefined}
    /\ seenSnapY = currentSnapPointY(SheetH, currentSnap)
    /\ kbOpen = FALSE /\ kbCleanup = NoCleanup
    /\ hist = <<"opening", "open">> /\ flipped = FALSE /\ stuck = FALSE /\ log = <<>>
    /\ FocusInit
    /\ KeyboardInit
    /\ yUnconstrainedRef = [set |-> TRUE, v |-> y]
    /\ dragRaw = LET y0 == IF currentSnap # Undefined /\ HasSnapPoint(SheetH, currentSnap)
                           THEN getSnapPoint(SheetH, currentSnap).snapValueY ELSE 0
                 IN [y0 |-> y0, sum |-> y - y0]
    /\ disableDismiss \in BOOLEAN
    /\ UtilInit

DragEndNext == DragEnd

SpecDragEnd == DragEndInit /\ [][DragEndNext]_vars

\* a drag handler runs in the step that leaves the log l, and stops an
\* animation, writes y, changes currentSnap or calls onClose
DragActs(l) ==
    /\ l # <<>>
    /\ l[1].c \in {"onDragStart", "onDrag", "onDragEnd"}
    /\ \E i \in 1..Len(l) : l[i].c \in {"stop", "y.set", "setCurrentSnap", "onClose"}

\* C14: the drag handlers act only while the lifecycle is open: in closed,
\* opening or closing no drag start, move or end stops an animation, writes y,
\* changes currentSnap or calls onClose.
C14_DragOnlyWhileOpen == [][DragActs(log') => state = "open"]_vars

\* C15: y is never set directly while an animation of y is in flight: whoever
\* sets y has stopped the running animation first.
C15_WritersNeverOverlap ==
    [][\A i \in 1..Len(log') :
          log'[i].c = "y.set"
            => (anim = Stopped \/ \E j \in 1..(i - 1) : log'[j].c = "stop")]_vars

\* C16: after every pointer move of a drag the rendered y is the constrained
\* projection of y at the drag start plus the sum of all deltas since.
C16_RenderedIsConstrainedSum ==
    [][(log' # <<>> /\ log'[1].c = "onDrag")
        => y' = applyConstraints(dragRaw'.y0 + dragRaw'.sum, dragConstraints)]_vars

\* a pointer move has taken a drag, already beyond the upper bound, further beyond
C16_Witness ==
    /\ yUnconstrainedRef.set
    /\ log # <<>> /\ log[1].c = "onDrag"
    /\ dragRaw.y0 + dragRaw.sum = dragConstraints.min - MaxOver
    /\ y = dragConstraints.min - (MaxOver \div 10)

(***************************************************************************)
(* useVirtualKeyboard, and the Sheet that renders with what it reports     *)
(***************************************************************************)
\* visualViewportThreshold = 100
visualViewportThreshold == 100
\* the heights the platform reports for its keyboard: vk.boundingRect.height,
\* or window.innerHeight - visualViewport.height
PlatformHeights == {0, 100, 300}

\* two text inputs and a button inside the sheet; "out" is anything else
Elements == {"out", "input", "input2", "other"}
\* container.contains(el), positionerRef.current?.contains(el)
InContainer(el) == el # "out"
isTextInput(el) == el \in {"input", "input2"}

KeyboardHeap == [ref |-> focusedElementRef, timer |-> debounceTimer,
                 state |-> keyboardState, inset |-> keyboardInset]

\* function updateKeyboardState(), up to the setTimeout
updateKeyboardState(K) == [K EXCEPT !.timer = TRUE]

\* function handleFocusIn(e)
handleFocusIn(K, target) ==
    IF isTextInput(target) /\ InContainer(target)
    THEN updateKeyboardState([K EXCEPT !.ref = target])
    ELSE K

\* function handleFocusOut()
handleFocusOut(K) == updateKeyboardState([K EXCEPT !.ref = NoElement])

\* (mutation) a recompute that reads the platform whatever is focused
keyboardTimeoutAnyFocus(K, pf) ==
    [K EXCEPT !.timer = FALSE, !.inset = pf.height,
              !.state = [isVisible |-> pf.height > 0, height |-> pf.height]]

\* (mutation) a recompute that reports the difference it has measured also when
\* that is not beyond the threshold
keyboardTimeoutKeepsHeight(K, pf) ==
    LET K1 == [K EXCEPT !.timer = FALSE]
    IN IF ~isTextInput(K.ref)
       THEN [K1 EXCEPT !.inset = 0, !.state = NoKeyboard]
       ELSE IF pf.api = "vk"
       THEN [K1 EXCEPT !.inset = pf.height,
                       !.state = [isVisible |-> pf.height > 0, height |-> pf.height]]
       ELSE IF pf.api = "vv"
       THEN [K1 EXCEPT !.inset = pf.height,
                       !.state = [isVisible |-> pf.height > visualViewportThreshold,
                                  height |-> pf.height]]
       ELSE K1

\* (mutation) a recompute for which a difference equal to the threshold counts
keyboardTimeoutAtThreshold(K, pf) ==
    LET K1 == [K EXCEPT !.timer = FALSE]
    IN IF ~isTextInput(K.ref)
       THEN [K1 EXCEPT !.inset = 0, !.state = NoKeyboard]
       ELSE IF pf.api = "vk"
       THEN [K1 EXCEPT !.inset = pf.height,
                       !.state = [isVisible |-> pf.height > 0, height |-> pf.height]]
       ELSE IF pf.api = "vv"
       THEN IF pf.height >= visualViewportThreshold
            THEN [K1 EXCEPT !.inset = pf.height,
                            !.state = [isVisible |-> TRUE, height |-> pf.height]]
            ELSE [K1 EXCEPT !.inset = 0, !.state = NoKeyboard]
       ELSE K1

\* the callback of the setTimeout in updateKeyboardState
keyboardTimeout(K, pf) ==
    LET K1 == [K EXCEPT !.timer = FALSE]
    IN IF ~isTextInput(K.ref)
       THEN [K1 EXCEPT !.inset = 0, !.state = NoKeyboard]
       ELSE IF pf.api = "vk"
       THEN [K1 EXCEPT !.inset = pf.height,
                       !.state = [isVisible |-> pf.height > 0, height |-> pf.height]]
       ELSE IF pf.api = "vv"
       THEN IF pf.height > visualViewportThreshold
            THEN [K1 EXCEPT !.inset = pf.height,
                            !.state = [isVisible |-> TRUE, height |-> pf.height]]
            ELSE [K1 EXCEPT !.inset = 0, !.state = NoKeyboard]
       ELSE K1

\* the effect of useVirtualKeyboard has its listeners attached:
\* isEnabled: isOpen && avoidKeyboard, as of the last render
KeyboardListening == mounted /\ seenIsOpen

KeyboardStore(K) ==
    /\ focusedElementRef' = K.ref
    /\ debounceTimer' = K.timer
    /\ keyboardState' = K.state
    /\ keyboardInset' = K.inset

KeyboardFrame == <<isOpen, seenIsOpen, renders, state, queue, eff, abortControllerRef, y,
                   anim, openStateRef, yListeners, currentSnap, snapQ, sheetHeight,
                   seenSnapY, kbOpen, kbCleanup, Props, hist, flipped, stuck, DragVars, UtilVars,
                   focusHook, cleanup, restores>>

\* const visibility = useTransform(y, (val) => val + 2 >= closedY ? 'hidden' : 'visible');
\* the two pixels of tolerance are below the unit of length of the model
Visible == y < closedY(sheetHeight)

\* the focus moves to another element: focusout on the old one, focusin on the
\* new one; the elements inside the sheet exist while its children are rendered,
\* and take the focus only while the sheet is visible
KeyboardFocusMove ==
    \E to \in Elements \ {focus} :
        LET K1 == IF KeyboardListening /\ focus # "out" THEN handleFocusOut(KeyboardHeap)
                  ELSE KeyboardHeap
            K2 == IF KeyboardListening /\ to # "out" THEN handleFocusIn(K1, to) ELSE K1
        IN /\ mounted /\ ~MicroPending
           /\ InContainer(to) => (state # "closed" /\ Visible)
           /\ focus' = to
           /\ KeyboardStore(K2)
           /\ log' = <<>>
           /\ UNCHANGED <<platform, KeyboardFrame>>

\* the platform keyboard grows or shrinks: 'geometrychange' of
\* navigator.virtualKeyboard, 'resize' of window.visualViewport
PlatformChange ==
    \E h \in PlatformHeights \ {platform.height} :
        /\ mounted /\ ~MicroPending
        /\ platform' = [platform EXCEPT !.height = h]
        /\ KeyboardStore(IF KeyboardListening /\ platform.api # "none"
                         THEN updateKeyboardState(KeyboardHeap) ELSE KeyboardHeap)
        /\ log' = <<>>
        /\ UNCHANGED <<focus, KeyboardFrame>>

\* the debounce timer fires
KeyboardTimeout ==
    /\ debounceTimer /\ ~MicroPending
    /\ KeyboardStore(keyboardTimeout(KeyboardHeap, platform))
    /\ log' = <<>>
    /\ UNCHANGED <<focus, platform, KeyboardFrame>>

\* a render of the Sheet with what useVirtualKeyboard reports: the effect of
\* the hook runs again when isEnabled has changed (its cleanup clears the
\* timer), and a sheet that renders closed removes its children, and with them
\* the focused element, from the document
KeyboardRenderWith(sh) ==
    /\ RenderWith(sh, keyboardState.isVisible)
    /\ debounceTimer' = IF mounted /\ seenIsOpen /\ ~isOpen THEN FALSE ELSE debounceTimer
    /\ focus' = IF NextState(Heap) = "closed" THEN "out" ELSE focus
    /\ UNCHANGED <<focusedElementRef, keyboardState, keyboardInset, platform, DragVars, UtilVars,
                   focusHook, cleanup, restores>>

KeyboardRender ==
    /\ RenderDue \/ keyboardState.isVisible # kbOpen
    /\ KeyboardRenderWith(sheetHeight)

KeyboardMeasure ==
    /\ mounted /\ ~MicroPending
    /\ sheetHeight = 0
    /\ state # "closed"
    /\ KeyboardRenderWith(SheetH)

\* a sheet with snap points on a platform with one of the keyboard APIs or none
KeyboardSheetInit ==
    /\ SheetInit
    /\ snapPointsProp.given /\ initialSnap = 1
    /\ FocusInit
    /\ DragInit
    /\ UtilInit
    /\ focusedElementRef = NoElement
    /\ debounceTimer = FALSE
    /\ keyboardState = NoKeyboard
    /\ keyboardInset = 0
    /\ platform \in [api : {"vk", "vv", "none"}, height : {0}]

KeyboardNext ==
    \/ FlipOnce
    \/ KeyboardRender
    \/ KeyboardMeasure
    \/ KeyboardFocusMove
    \/ PlatformChange
    \/ KeyboardTimeout
    \/ Microtask
    \/ AnimationComplete
    \/ WaitForElementDone

SpecKeyboard == KeyboardSheetInit /\ [][KeyboardNext]_vars

\* the cleanup that the [keyboard.isKeyboardOpen] effect returned runs in this step
RestoreInvoked == mounted /\ kbOpen' # kbOpen /\ kbCleanup # NoCleanup

\* C12: the restore callback is never invoked while a text input inside the
\* sheet has the focus: it runs only once the focus has left the input region.
C12_NoRestoreWhileFocused == [][RestoreInvoked => ~isTextInput(focus')]_vars

\* the debounced recompute runs in this step
Recomputed == debounceTimer /\ ~debounceTimer' /\ UNCHANGED <<isOpen, seenIsOpen, renders>>

\* C13: when the debounced recompute runs after a focusout, with no text input
\* focused, it reports isVisible = false and height = 0 and sets the keyboard
\* inset to 0, whatever height the platform reports.
C13_BlurReportsHidden ==
    [][(Recomputed /\ ~isTextInput(focusedElementRef))
        => (keyboardState' = NoKeyboard /\ keyboardInset' = 0)]_vars

\* a recompute has run with nothing focused while the platform keyboard is up
\* (the sheet was mounted open on a platform with navigator.virtualKeyboard,
\* so the hook has heard every event and its timer has fired since the last)
C13_Witness ==
    /\ ~flipped /\ isOpen /\ platform.api = "vk"
    /\ ~debounceTimer /\ focusedElementRef = NoElement /\ focus = "out"
    /\ platform.height > visualViewportThreshold
    /\ keyboardState = NoKeyboard /\ keyboardInset = 0
    /\ KeyboardListening /\ state = "open"

(***************************************************************************)
(* useSnapOnFocus on its own: a caller renders it with isOpen and          *)
(* currentSnap of its choice, the focus moves between the elements of the  *)
(* page, and onSnapToFull returns a restore callback or nothing            *)
(***************************************************************************)
\* restore callbacks that onSnapToFull can return in one run
MaxRestore == 3

FocusHeap == [cleanup |-> cleanup, restores |-> restores]

\* cleanup?.()
callCleanup(F) ==
    IF F.cleanup = 0 THEN F ELSE [F EXCEPT !.restores[F.cleanup] = Min(@ + 1, 2)]

\* handleFocusIn of useSnapOnFocus; returns: onSnapToFull() returns a function
snapOnFocusIn(F, target, cs, last, returns) ==
    IF ~isTextInput(target) THEN F
    ELSE IF cs = last THEN F
    ELSE IF returns
    THEN [F EXCEPT !.restores = Append(@, 0), !.cleanup = Len(F.restores) + 1]
    ELSE [F EXCEPT !.cleanup = 0]

\* (mutation) a handleFocusOut that keeps the callback it has just called
snapOnFocusOutKeeps(F, relatedTarget) ==
    IF InContainer(relatedTarget) /\ ~isTextInput(relatedTarget) THEN F
    ELSE callCleanup(F)

\* handleFocusOut of useSnapOnFocus
snapOnFocusOut(F, relatedTarget) ==
    IF InContainer(relatedTarget) /\ ~isTextInput(relatedTarget) THEN F
    ELSE [callCleanup(F) EXCEPT !.cleanup = 0]

\* return () => { removeEventListener...; cleanup?.() }
snapOnFocusCleanup(F) == IF focusHook = "listening" THEN callCleanup(F) ELSE F

\* the lastSnapPointIndex the caller passes: that of the measured sheet
FocusLast == Len(SnapPointValues)

FocusFrame == <<renders, state, queue, eff, abortControllerRef, y, anim, openStateRef,
                yListeners, snapQ, sheetHeight, seenSnapY, kbOpen, kbCleanup, Props, hist,
                flipped, stuck, log, KeyboardVars, DragVars, UtilVars>>

\* the focus moves to another element: focusout on the old one, focusin on the new
FocusMove ==
    \E to \in Elements \ {focus}, returns \in BOOLEAN :
        LET heard == focusHook = "listening"
            F1 == IF heard /\ InContainer(focus) THEN snapOnFocusOut(FocusHeap, to)
                  ELSE FocusHeap
            F2 == IF heard /\ InContainer(to)
                  THEN snapOnFocusIn(F1, to, currentSnap, FocusLast, returns)
                  ELSE F1
        IN /\ focusHook # "unmounted"
           /\ Len(F2.restores) <= MaxRestore
           /\ focus' = to
           /\ cleanup' = F2.cleanup
           /\ restores' = F2.restores
           /\ UNCHANGED <<focusHook, isOpen, seenIsOpen, currentSnap, FocusFrame>>

\* the caller renders with another isOpen or currentSnap: the effect is cleaned
\* up and runs again, with a `cleanup` of its own
SnapOnFocusRender ==
    \E io \in BOOLEAN, cs \in {Undefined} \cup (0..FocusLast) :
        /\ focusHook # "unmounted"
        /\ io # isOpen \/ cs # currentSnap
        /\ restores' = snapOnFocusCleanup(FocusHeap).restores
        /\ cleanup' = 0
        /\ focusHook' = IF io THEN "listening" ELSE "idle"
        /\ isOpen' = io
        /\ seenIsOpen' = io
        /\ currentSnap' = cs
        /\ UNCHANGED <<focus, FocusFrame>>

\* the caller unmounts the component that uses the hook
SnapOnFocusUnmount ==
    /\ focusHook # "unmounted"
    /\ restores' = snapOnFocusCleanup(FocusHeap).restores
    /\ focusHook' = "unmounted"
    /\ UNCHANGED <<focus, cleanup, isOpen, seenIsOpen, currentSnap, FocusFrame>>

\* the hook after its first effect has run
FocusHookInit ==
    /\ SheetInit
    /\ snapPointsProp.given
    /\ KeyboardInit
    /\ DragInit
    /\ UtilInit
    /\ focus = "out"
    /\ focusHook = IF isOpen THEN "listening" ELSE "idle"
    /\ cleanup = 0
    /\ restores = <<>>

FocusNext == FocusMove \/ SnapOnFocusRender \/ SnapOnFocusUnmount

SpecFocus == FocusHookInit /\ [][FocusNext]_vars

\* C11: every restore callback that the keyboard-open handler has returned is
\* invoked exactly once: never a second time, and once the component is
\* unmounted none is left that was never invoked.
C11_RestoreInvokedExactlyOnce ==
    /\ \A r \in 1..Len(restores) : restores[r] <= 1
    /\ focusHook = "unmounted" => \A r \in 1..Len(restores) : restores[r] = 1

\* the hook is unmounted after onSnapToFull has returned MaxRestore callbacks
C11_Witness ==
    /\ focusHook = "unmounted"
    /\ Len(restores) = MaxRestore
    /\ \A r \in 1..Len(restores) : restores[r] = 1

(***************************************************************************)
(* Claims about onDragEnd                                                  *)
(***************************************************************************)
\* onDragEnd runs in the step that leaves the log l, with release velocity v
DragEnded(l, v) == l # <<>> /\ l[1].c = "onDragEnd" /\ l[1].a = v
\* const currentSnapPoint = ... is not null
HasCurrentSnapPoint == currentSnap # Undefined /\ HasSnapPoint(sheetHeight, currentSnap)

C18_ClosesIffPastThreshold ==
    [][\A v \in Velocities :
          (~HasCurrentSnapPoint /\ ~disableDismiss /\ DragEnded(log', v)) =>
             IF \/ v > dragVelocityThreshold
                \/ y * dragCloseThreshold.den > sheetHeight * dragCloseThreshold.num
             THEN anim'.to = closedY(sheetHeight) /\ Count(log', "onClose") = 1
             ELSE anim'.to = 0 /\ ~Has(log', "onClose")]_vars

\* a slow release below the close threshold has closed a sheet without snap points
C18_Witness ==
    /\ ~snapPointsProp.given /\ ~disableDismiss /\ DragEnded(log, 0)
    /\ y * dragCloseThreshold.den > sheetHeight * dragCloseThreshold.num
    /\ anim.to = closedY(sheetHeight) /\ Count(log, "onClose") = 1

\* C19: a drag end with |velocity| > dragVelocityThreshold and a current snap
\* point moves one snap index from the current one in the direction of the
\* velocity, and stays at index 0 or at the last index when it is there.
C19_HighVelocityMovesOneIndex ==
    [][\A v \in Velocities :
          (HasCurrentSnapPoint /\ ~disableDismiss /\ Abs(v) > dragVelocityThreshold
             /\ DragEnded(log', v)) =>
                snapQ' = IF v > 0 THEN Max(currentSnap - 1, 0)
                         ELSE Min(currentSnap + 1, lastSnapPointIndex(sheetHeight))]_vars

\* the index of the snap point next to the current one in the direction of the
\* offset, or Undefined
Neighbour ==
    LET i == IF dragRaw.sum > 0 THEN currentSnap - 1 ELSE currentSnap + 1
    IN IF HasSnapPoint(sheetHeight, i) THEN i ELSE Undefined

\* C20: a drag end at low velocity with a current snap point returns the snap
\* point at whose snapValueY the sheet was released; released strictly past the
\* midpoint towards the neighbour in the travel direction, and not beyond that
\* neighbour, it returns the neighbour; with no snap point in the travel
\* direction it returns the current snap point.
C20_LowVelocitySnaps ==
    [][\A v \in Velocities :
          (HasCurrentSnapPoint /\ ~disableDismiss /\ Abs(v) <= dragVelocityThreshold
             /\ DragEnded(log', v)) =>
          LET cur == getSnapPoint(sheetHeight, currentSnap)
              down == dragRaw.sum > 0
          IN /\ \A i \in 0..lastSnapPointIndex(sheetHeight) :
                   getSnapPoint(sheetHeight, i).snapValueY = y => snapQ' = i
             /\ Neighbour # Undefined =>
                   LET n == getSnapPoint(sheetHeight, Neighbour)
                   IN (IF down THEN 2 * y > cur.snapValueY + n.snapValueY
                                    /\ y <= n.snapValueY
                       ELSE 2 * y < cur.snapValueY + n.snapValueY /\ y >= n.snapValueY)
                      => snapQ' = Neighbour
             /\ Neighbour = Undefined => snapQ' = currentSnap]_vars

\* a slow release past the midpoint towards the lower neighbour, short of it, has
\* returned that neighbour
C20_Witness ==
    /\ ~disableDismiss /\ DragEnded(log, 0)
    /\ currentSnap = 2 /\ y = 2 /\ snapQ = 1

(***************************************************************************)
(* The pure functions on their own: a behaviour is one call, with          *)
(* arguments drawn from small sets, beside a sheet that is not mounted     *)
(***************************************************************************)
\* the longest array passed to a function
MaxLen == 3
\* the pixel values passed: heights, snap values, points
Pixels == 0..(windowHeight + 1)
\* the arrays of at most MaxLen pixel values
PixelArrays == UNION {[1..n -> Pixels] : n \in 0..MaxLen}

\* a call of a pure function or a timer leaves the sheet and its hooks alone
SheetAndHooks ==
    <<isOpen, seenIsOpen, renders, state, queue, eff, abortControllerRef, y, anim,
      openStateRef, yListeners, currentSnap, snapQ, sheetHeight, seenSnapY, kbOpen,
      kbCleanup, Props, hist, flipped, stuck, log, FocusVars, KeyboardVars,
      yUnconstrainedRef, dragRaw, disableDismiss>>

\* computeSnapPoints({ sheetHeight, snapPointsProp, minSnapValue, maxSnapValue })
ComputeSnapPointsCall ==
    /\ call = NoCall
    /\ \E sh \in 0..SheetH, prop \in PixelArrays, minV \in {0, 1},
          maxV \in {windowHeight - 1, windowHeight} :
        /\ call' = [NoCall EXCEPT !.fn = "computeSnapPoints",
                                  !.nums = <<sh, minV, maxV>>, !.arr = prop]
        /\ ret' = [NoRet EXCEPT !.points = computeSnapPoints(sh, prop, minV, maxV)]
        /\ UNCHANGED <<SheetAndHooks, debounce, ran, poll>>

\* how far beyond a bound the points passed to applyConstraints lie
Far == 50
\* positions are whole pixels; an elastic factor is a number of tenths, and what
\* applyConstraints returns is a number of tenths of a pixel
Tenths == 10
NoElastic == [given |-> FALSE, min |-> 0, max |-> 0]
\* Partial<Axis>: each bound is a number or undefined
Axes ==
    {[hasMin |-> hm, min |-> lo, hasMax |-> hx, max |-> hi] :
        hm \in BOOLEAN, hx \in BOOLEAN, lo \in {0, 1},
        hi \in {windowHeight - 1, windowHeight}}
\* no elastic argument, or { min, max } with factors 0, 0.1, 0.5 and 1
Elastics ==
    {NoElastic} \cup {[given |-> TRUE, min |-> a, max |-> b] :
                         a \in {0, 1, 5, Tenths}, b \in {0, 1, 5, Tenths}}

\* mixNumber(from, to, progress) of motion: from + (to - from) * progress
mixNumber(from, to, progress) == Tenths * from + (to - from) * progress

\* (mutation) applyConstraints that never lets the point pass a bound
applyConstraintsRigid(point, axis, elastic) ==
    IF axis.hasMin /\ point < axis.min THEN Tenths * axis.min
    ELSE IF axis.hasMax /\ point > axis.max THEN Tenths * axis.max
    ELSE Tenths * point

\* (mutation) applyConstraints that uses elastic.max on both sides
applyConstraintsOneFactor(point, axis, elastic) ==
    IF axis.hasMin /\ point < axis.min
    THEN IF elastic.given THEN mixNumber(axis.min, point, elastic.max)
         ELSE Tenths * Max(point, axis.min)
    ELSE IF axis.hasMax /\ point > axis.max
    THEN IF elastic.given THEN mixNumber(axis.max, point, elastic.max)
         ELSE Tenths * Min(point, axis.max)
    ELSE Tenths * point

\* applyConstraints(point, { min, max }, elastic) of utils.ts, for any axis and
\* any elastic argument
applyConstraintsTenths(point, axis, elastic) ==
    IF axis.hasMin /\ point < axis.min
    THEN IF elastic.given THEN mixNumber(axis.min, point, elastic.min)
         ELSE Tenths * Max(point, axis.min)
    ELSE IF axis.hasMax /\ point > axis.max
    THEN IF elastic.given THEN mixNumber(axis.max, point, elastic.max)
         ELSE Tenths * Min(point, axis.max)
    ELSE Tenths * point

ApplyConstraintsCall ==
    /\ call = NoCall
    /\ \E point \in (0 - Far)..(windowHeight + Far), axis \in Axes, elastic \in Elastics :
        /\ call' = [NoCall EXCEPT !.fn = "applyConstraints", !.nums = <<point>>,
                                  !.axis = axis, !.elastic = elastic]
        /\ ret' = [NoRet EXCEPT !.num = applyConstraintsTenths(point, axis, elastic)]
        /\ UNCHANGED <<SheetAndHooks, debounce, ran, poll>>

\* isAscendingOrder(arr) of utils.ts; in the last round of its loop arr[i + 1]
\* is undefined, and undefined < arr[i] is false
isAscendingOrder(arr) ==
    ~\E i \in 1..Len(arr) : i + 1 <= Len(arr) /\ arr[i + 1] < arr[i]

IsAscendingOrderCall ==
    /\ call = NoCall
    /\ \E arr \in PixelArrays :
        /\ call' = [NoCall EXCEPT !.fn = "isAscendingOrder", !.arr = arr]
        /\ ret' = [NoRet EXCEPT !.ok = isAscendingOrder(arr)]
        /\ UNCHANGED <<SheetAndHooks, debounce, ran, poll>>

UtilNext == ComputeSnapPointsCall \/ ApplyConstraintsCall \/ IsAscendingOrderCall

UtilSheetInit ==
    /\ Init
    /\ ~isOpen
    /\ ~snapPointsProp.given

SpecUtil == UtilSheetInit /\ [][UtilNext]_vars

\* arr[i] < arr[i + 1] for every adjacent pair
StrictlyAscending(arr) == \A i \in 1..(Len(arr) - 1) : arr[i] < arr[i + 1]

\* C21: for strictly ascending configured heights and a container height > 0,
\* computeSnapPoints returns points whose snapIndex is their position, whose
\* snapValue is strictly ascending within [minValue, maxValue] and holds every
\* clamped configured height, whose first point has the value minValue, and
\* whose snapValueY is max(containerHeight - snapValue, 0).
C21_SnapPointsWellFormed ==
    call.fn = "computeSnapPoints" =>
        LET sh == call.nums[1]
            prop == call.arr
            minV == call.nums[2]
            maxV == call.nums[3]
            pts == ret.points
        IN (sh > 0 /\ StrictlyAscending(prop)) =>
              /\ Len(pts) >= 1
              /\ pts[1].snapValue = minV
              /\ StrictlyAscending([i \in 1..Len(pts) |-> pts[i].snapValue])
              /\ \A i \in 1..Len(pts) :
                    /\ pts[i].snapIndex = i - 1
                    /\ pts[i].snapValue >= minV /\ pts[i].snapValue <= maxV
                    /\ pts[i].snapValueY = Max(sh - pts[i].snapValue, 0)
              /\ \A j \in 1..Len(prop) :
                    \E i \in 1..Len(pts) : pts[i].snapValue = Clamp(prop[j], minV, maxV)

\* the caller asked for two heights above the minimum, one of them taller than
\* the container, and got three points
C21_Witness ==
    /\ call.fn = "computeSnapPoints"
    /\ call.nums[1] = SheetH /\ call.nums[2] = 1
    /\ call.arr = <<2, SheetH + 1>>
    /\ Len(ret.points) = 3 /\ ret.points[1].snapValue = 1
    /\ ret.points[3].snapValueY = 0

(***************************************************************************)
(* The sheet while its list of snap points is empty: no snapPoints prop,   *)
(* or a container that useMeasure has not reported yet.  Such a sheet      *)
(* stays at closedY, hidden (visibility), so no pointer reaches it and no  *)
(* drag handler runs                                                       *)
(***************************************************************************)
\* useMeasure reports the container of a sheet without snap points
MeasureWithoutSnapPoints == ~snapPointsProp.given /\ Measure

EmptyListNext ==
    \/ FlipOnce
    \/ Render
    \/ MeasureWithoutSnapPoints
    \/ KeyboardChange
    \/ SnapTo
    \/ Microtask
    \/ AnimationComplete
    \/ WaitForElementDone

SpecEmptyList == Init /\ [][EmptyListNext]_vars

\* C22: a sheet height <= 0 makes the list of snap points empty whatever the
\* snapPoints prop is, and while the list is empty (unmeasured, or no prop) no
\* step sets or animates y to the offset of a snap point: y is only animated to
\* the closed position (onClosing, onDragEnd) or to 0 by onDragEnd, and only set
\* by onDrag.
C22_EmptyListMovesNothing ==
    [][/\ sheetHeight' <= 0 => snapPoints(sheetHeight') = <<>>
       /\ (~snapPointsProp.given \/ sheetHeight' <= 0) =>
             \A i \in 1..Len(log') :
                /\ log'[i].c = "animate" =>
                      \/ log'[i].a = closedY(sheetHeight')
                      \/ log'[i].a = 0 /\ i > 1 /\ log'[i - 1].c = "onDragEnd"
                /\ log'[i].c = "y.set" => log'[1].c = "onDrag"]_vars

\* snapTo(1) has been called on an open sheet with snap points whose container
\* is not measured: it warned and y is where it was
C22_Witness ==
    /\ snapPointsProp.given /\ sheetHeight = 0 /\ state = "open"
    /\ log # <<>> /\ log[1].c \in {"snapTo", "snapToNow"} /\ log[1].a = 1
    /\ Has(log, "warn") /\ ~Has(log, "animate") /\ ~Has(log, "y.set")
    /\ y = windowHeight

\* the elastic argument of onDrag: { min: 0.1, max: 0.1 }
DragElastic == [given |-> TRUE, min |-> 1, max |-> 1]

\* C23: with the elastic factor 0.1 a point p beyond a bound is rendered at
\* bound + 0.1 * (p - bound): the rendered overshoot lies strictly between 0 and
\* the raw overshoot, and one more pixel of raw overshoot renders strictly
\* further out; above max and below min alike.
C23_ElasticOvershoot ==
    (call.fn = "applyConstraints" /\ call.elastic = DragElastic) =>
        LET p == call.nums[1]
            axis == call.axis
        IN /\ (axis.hasMax /\ p > axis.max /\ ~(axis.hasMin /\ p < axis.min)) =>
                 /\ ret.num = Tenths * axis.max + (p - axis.max)
                 /\ ret.num - Tenths * axis.max > 0
                 /\ ret.num - Tenths * axis.max < Tenths * (p - axis.max)
                 /\ applyConstraintsTenths(p + 1, axis, DragElastic) > ret.num
           /\ (axis.hasMin /\ p < axis.min) =>
                 /\ ret.num = Tenths * axis.min - (axis.min - p)
                 /\ Tenths * axis.min - ret.num > 0
                 /\ Tenths * axis.min - ret.num < Tenths * (axis.min - p)
                 /\ applyConstraintsTenths(p - 1, axis, DragElastic) < ret.num

\* a point 50px past max has been rendered 5px past max
C23_Witness ==
    /\ call.fn = "applyConstraints" /\ call.elastic = DragElastic
    /\ call.axis.hasMax /\ call.nums[1] = call.axis.max + Far
    /\ ret.num = Tenths * call.axis.max + Far

\* C24: applyConstraints(p, {min, max}, elastic) with min <= max returns p when
\* p violates no defined bound; without an elastic argument it returns p
\* clamped into the defined bounds, and returns the same for that result again;
\* with an elastic argument it returns mix(min, p, elastic.min) for p < min and
\* mix(max, p, elastic.max) for p > max.
C24_MatchesReference ==
    call.fn = "applyConstraints" =>
        LET p == call.nums[1]
            axis == call.axis
            elastic == call.elastic
            below == axis.hasMin /\ p < axis.min
            above == axis.hasMax /\ p > axis.max
        IN /\ (~below /\ ~above) => ret.num = Tenths * p
           /\ ~elastic.given =>
                 LET lo == IF axis.hasMin THEN Max(p, axis.min) ELSE p
                     clamped == IF axis.hasMax THEN Min(lo, axis.max) ELSE lo
                 IN /\ ret.num = Tenths * clamped
                    /\ applyConstraintsTenths(clamped, axis, elastic) = ret.num
           /\ (elastic.given /\ below) =>
                 ret.num = Tenths * axis.min + (p - axis.min) * elastic.min
           /\ (elastic.given /\ above) =>
                 ret.num = Tenths * axis.max + (p - axis.max) * elastic.max

\* a point below min has been mixed with elastic.min = 0.5, not with elastic.max
C24_Witness ==
    /\ call.fn = "applyConstraints"
    /\ call.elastic = [given |-> TRUE, min |-> 5, max |-> 1]
    /\ call.axis.hasMin /\ call.nums[1] = call.axis.min - 2
    /\ ret.num = Tenths * call.axis.min - Tenths

\* C27: isAscendingOrder(arr) returns true exactly when arr is strictly
\* ascending (arr[i] < arr[i + 1] for every adjacent pair; the empty and the
\* one-element array are ascending).
C27_TrueIffStrictlyAscending ==
    call.fn = "isAscendingOrder" => (ret.ok <=> StrictlyAscending(call.arr))

(***************************************************************************)
(* The debounced callbacks: every trigger clears the timer it set before   *)
(* and sets a new one; the callback runs when a timer fires                *)
(***************************************************************************)
\* triggers that one burst can hold
MaxBurst == 3
\* what a trigger carries: the entries of the ResizeObserver, the element
\* scrolled, the element focusedElementRef holds after the event
Data == {1, 2}

\* clearTimeout(timeoutRef.current): clearing a timer that has fired does nothing
clearTimeout(D) ==
    IF D.refLive
    THEN [D EXCEPT !.pending = SubSeq(@, 1, Len(@) - 1), !.refLive = FALSE]
    ELSE D

\* (mutation) a trigger that sets its timer without clearing the one before
debouncedWithoutClear(D, d) ==
    [D EXCEPT !.pending = Append(@, d), !.refLive = TRUE, !.burst = Append(@, d)]

\* if (timeoutRef.current) clearTimeout(timeoutRef.current);
\* timeoutRef.current = setTimeout(() => callback(...), 32)
debounced(D, d) ==
    [clearTimeout(D) EXCEPT !.pending = Append(@, d), !.refLive = TRUE,
                            !.burst = Append(D.burst, d)]

\* the timer at place k fires
fired(D, k) ==
    LET rest == SubSeq(D.pending, 1, k - 1) \o SubSeq(D.pending, k + 1, Len(D.pending))
    IN [D EXCEPT !.pending = rest,
                 !.refLive = IF k = Len(D.pending) THEN FALSE ELSE @,
                 !.burst = IF rest = <<>> THEN <<>> ELSE @]

\* the effect runs: the observer observes, the listeners are added
Subscribe ==
    \E op \in Ops :
        /\ ~debounce[op].on
        /\ debounce' = [debounce EXCEPT ![op].on = TRUE]
        /\ ran' = <<>>
        /\ UNCHANGED <<SheetAndHooks, call, ret, poll>>

\* the element is resized, the content is scrolled, the viewport or the focus changes
Trigger ==
    \E op \in Ops, d \in Data :
        /\ debounce[op].on
        /\ Len(debounce[op].burst) < MaxBurst
        /\ debounce' = [debounce EXCEPT ![op] = debounced(@, d)]
        /\ ran' = <<>>
        /\ UNCHANGED <<SheetAndHooks, call, ret, poll>>

\* a pending timer fires and runs the callback with what its trigger gave it
TimerFires ==
    \E op \in Ops :
    \E k \in 1..Len(debounce[op].pending) :
        /\ debounce' = [debounce EXCEPT ![op] = fired(@, k)]
        /\ ran' = <<[op |-> op, by |-> "timer", data |-> debounce[op].pending[k]]>>
        /\ UNCHANGED <<SheetAndHooks, call, ret, poll>>

\* onTouchStart of useScrollPosition: determineScrollPosition at once; it sets and
\* clears no timer
TouchStart ==
    \E d \in Data :
        /\ debounce["scroll"].on
        /\ ran' = <<[op |-> "scroll", by |-> "touchstart", data |-> d]>>
        /\ UNCHANGED <<SheetAndHooks, call, ret, debounce, poll>>

\* the cleanup of the effect: disconnect or removeEventListener, then clearTimeout
Unsubscribe ==
    \E op \in Ops :
        /\ debounce[op].on
        /\ debounce' = [debounce EXCEPT ![op] = [clearTimeout(@) EXCEPT !.on = FALSE,
                                                                       !.burst = <<>>]]
        /\ ran' = <<>>
        /\ UNCHANGED <<SheetAndHooks, call, ret, poll>>

DebounceNext == Subscribe \/ Trigger \/ TimerFires \/ TouchStart \/ Unsubscribe

SpecDebounce == UtilSheetInit /\ [][DebounceNext]_vars

\* C25: for each debounced callback a trigger runs nothing itself; while
\* subscribed, a burst of triggers has exactly one timer pending, and the
\* callback a timer runs gets the data of the last trigger of its burst, with no
\* timer left behind; after the cleanup no timer is pending and none runs.
\* (The touchstart listener of useScrollPosition is not debounced.)
C25_OneTrailingInvocation ==
    [][\A op \in Ops :
          LET D == debounce[op]
          IN /\ (D.burst # <<>>) <=> (Len(D.pending) = 1 /\ D.on)
             /\ ~D.on => D.pending = <<>>
             /\ Len(debounce'[op].burst) > Len(D.burst) => ran' = <<>>
             /\ (ran' # <<>> /\ ran'[1].op = op /\ ran'[1].by = "timer") =>
                   /\ D.on /\ D.burst # <<>>
                   /\ ran'[1].data = D.burst[Len(D.burst)]
                   /\ debounce'[op].pending = <<>>]_vars

\* a burst of resizes is over: its timer has run the callback with the entries of
\* the last resize and no timer is left
C25_Witness ==
    /\ ran = <<[op |-> "resize", by |-> "timer", data |-> 2]>>
    /\ debounce["resize"].on /\ debounce["resize"].pending = <<>>
    /\ debounce["resize"].burst = <<>>

(***************************************************************************)
(* Gestures around the keyboard: an open sheet with snap points is dragged *)
(* while the keyboard coordinator may report the keyboard shown or hidden  *)
(* at any moment, a drag in progress included                              *)
(***************************************************************************)
GestureInit == DragSheetInit /\ snapPointsProp.given

GestureNext ==
    \/ Render
    \/ Measure
    \/ KeyboardChange
    \/ Microtask
    \/ AnimationComplete
    \/ WaitForElementDone
    \/ DragStart
    \/ DragRestart
    \/ StrayMove
    \/ DragMove
    \/ DragEnd

SpecGesture == GestureInit /\ [][GestureNext]_vars

\* a drag handler was called in the step that leaves the log l
DragHandlerRan(l) ==
    l # <<>> /\ l[1].c \in {"onDragStart", "onDrag", "onDragIgnored", "onDragEnd"}

\* C26: while the keyboard coordinator reports the keyboard visible disableDrag
\* is true whatever the disableDrag prop says, and no drag handler runs: no drag
\* starts and none continues.
C26_KeyboardDisablesDrag ==
    [][/\ kbOpen => \A prop \in BOOLEAN : disableDrag(prop)
       /\ DragHandlerRan(log') => ~kbOpen]_vars

\* the keyboard became visible in the middle of a drag, which it has repositioned
C26_Witness ==
    /\ kbOpen
    /\ yUnconstrainedRef.set
    /\ dragRaw.sum # 0
    /\ \E i \in 1..Len(log) : log[i].c = "y.set"


\* C30: a drag start sets the accumulator to the rendered y whatever an earlier
\* drag left in it, a completed drag end clears it, and a pointer move that
\* arrives with no drag in progress leaves y, the accumulator and the rotation
\* of the indicator as they were.
C30_AccumulatorFrame ==
    [][/\ (log' # <<>> /\ log'[1].c = "onDragStart")
            => yUnconstrainedRef' = [set |-> TRUE, v |-> y]
       /\ (log' # <<>> /\ log'[1].c = "onDragEnd")
            => yUnconstrainedRef' = NoDrag
       /\ (log' # <<>> /\ log'[1].c = "onDragIgnored")
            => /\ y' = y
               /\ yUnconstrainedRef' = yUnconstrainedRef
               /\ \A i \in 1..Len(log') :
                    log'[i].c \notin {"indicatorRotation.set", "y.set"}]_vars

\* a pointer move reached onDrag with no drag in progress, the open sheet at rest
C30_Witness ==
    /\ log # <<>> /\ log[1].c = "onDragIgnored" /\ log[1].a # 0
    /\ ~yUnconstrainedRef.set
    /\ state = "open"
    /\ anim = Stopped


(***************************************************************************)
(* What the keyboard coordinator reports                                   *)
(***************************************************************************)
\* C28: when the recompute runs with a text input of the sheet focused, then
\* without the keyboard-rect API it reports the keyboard visible with height d,
\* d the window height less the visual-viewport height, exactly when d is
\* strictly greater than the threshold, and isVisible = false and height = 0
\* otherwise; with the API it reports visible exactly when the height of the
\* bounding rect is greater than 0.
C28_VisibleIffBeyondThreshold ==
    [][(Recomputed /\ isTextInput(focus) /\ InContainer(focus))
        => /\ platform.api = "vv"
                => keyboardState' = IF platform.height > visualViewportThreshold
                                    THEN [isVisible |-> TRUE, height |-> platform.height]
                                    ELSE NoKeyboard
           /\ platform.api = "vk"
                => keyboardState'.isVisible = (platform.height > 0)]_vars

\* the recompute has run with an input focused and the visual viewport shorter
\* than the window by exactly the threshold: the keyboard, reported visible at
\* the last render, is reported hidden
C28_Witness ==
    /\ platform.api = "vv" /\ platform.height = visualViewportThreshold
    /\ isTextInput(focus) /\ focusedElementRef = focus
    /\ ~debounceTimer /\ KeyboardListening
    /\ kbOpen /\ keyboardState = NoKeyboard


(***************************************************************************)
(* snapTo, at once and animated                                            *)
(***************************************************************************)
\* the places of log l where the call c of snapTo's own updateSnap(i) is recorded
SnapCalls(l, c, i) == {k \in 1..Len(l) : l[k].c = c /\ l[k].a = i /\ l[k].h = 0}

FocusLeavesInput ==
    /\ focusHook = "listening"
    /\ focus' # focus
    /\ isTextInput(focus)
    /\ cleanup # 0

\* C31: when the focus moves from one text input to another text input inside
\* the container the restore callback is not invoked, and when the focus leaves
\* the container or moves to an element that is no text input the restore
\* callback is invoked and cleared.
C31_RestoreOnLeavingInputs ==
    [][FocusLeavesInput
        => IF isTextInput(focus')
           THEN restores'[cleanup] = restores[cleanup]
           ELSE restores'[cleanup] = restores[cleanup] + 1 /\ cleanup' = 0]_vars


\* the caller renders the hook, still open, with currentSnap now the last index,
\* while a text input keeps the focus and the hook holds its restore callback
RerunAtFull ==
    /\ focusHook = "listening" /\ focusHook' = "listening"
    /\ isTextInput(focus) /\ focus' = focus
    /\ cleanup # 0
    /\ currentSnap # FocusLast /\ currentSnap' = FocusLast

\* C32: after a text input inside the container has received the focus while
\* currentSnap is not the last index, onSnapToFull is called once, and the
\* restore callback it returned is not invoked by the re-run of the hook that
\* follows currentSnap changing to the last index: only a later focus-out, the
\* closing of the sheet or the unmount invokes it.
C32_FullWhileFocused ==
    [][/\ (focusHook = "listening" /\ focus' # focus /\ isTextInput(focus')
             /\ currentSnap # FocusLast)
            => Len(restores') <= Len(restores) + 1
       /\ RerunAtFull => restores'[cleanup] = restores[cleanup]]_vars


(***************************************************************************)
(* waitForElement: the open effect polls for the container every interval, *)
(* and the container is rendered by the children of the Sheet, or never    *)
(***************************************************************************)
\* maxAttempts = 20
maxAttempts == 20

\* (mutation) a poll that gives up only when the element exists
polledForever(P) ==
    LET n == P.attempts + 1
    IN IF P.element
       THEN [P EXCEPT !.attempts = n, !.resolved = @ + 1, !.got = P.element]
       ELSE [P EXCEPT !.attempts = Min(n, maxAttempts + 1)]

\* the callback of setInterval: attempts++; if (element || attempts >= maxAttempts)
\* { clearInterval(timer); resolve(element) }
polled(P) ==
    LET n == P.attempts + 1
    IN IF P.element \/ n >= maxAttempts
       THEN [P EXCEPT !.attempts = n, !.resolved = @ + 1, !.got = P.element]
       ELSE [P EXCEPT !.attempts = n]

SheetAndFocus == <<isOpen, flipped, seenIsOpen, renders, state, currentSnap, sheetHeight,
                   seenSnapY, kbOpen, kbCleanup, Props, hist, FocusVars, KeyboardVars,
                   DragVars, call, ret, debounce, ran>>

\* the interval of the poll elapses; clearInterval leaves no callback to run
PollTick ==
    \E h \in EffIds :
        /\ ~MicroPending
        /\ eff[h].wait
        /\ poll.resolved = 0
        /\ poll' = polled(poll)
        /\ IF poll'.resolved > 0
           THEN Store(Collect(waitForElementThen(Heap, sheetHeight, h)))
           ELSE Store(Heap)
        /\ UNCHANGED SheetAndFocus

\* the children of the Sheet render the container
ContainerAppears ==
    /\ mounted /\ ~MicroPending
    /\ state # "closed"
    /\ ~poll.element
    /\ poll' = [poll EXCEPT !.element = TRUE]
    /\ Store(Heap)
    /\ UNCHANGED SheetAndFocus

\* useMeasure reports the height of the container that is there
MeasureContainer == poll.element /\ Measure

WaitNext ==
    \/ FlipOnce
    \/ Render
    \/ MeasureContainer
    \/ Microtask
    \/ AnimationComplete
    \/ ContainerAppears
    \/ PollTick

SpecWait == Init /\ [][WaitNext]_vars

\* the open effect is waiting for its poll
Waiting == \E h \in EffIds : eff[h].wait

\* C33: waitForElement resolves exactly once, at the first poll at which the
\* element exists or else at poll number maxAttempts with no element; no poll
\* runs after it has resolved; and the continuation of the open effect runs at
\* the resolution, also when the container never appears.
C33_PollTerminates ==
    [][/\ poll'.resolved <= 1
       /\ Waiting' => (poll'.resolved = 0 /\ poll'.attempts < maxAttempts)
       /\ poll'.attempts # poll.attempts
            => /\ poll.resolved = 0 /\ Waiting
               /\ poll'.resolved = 1 <=> (poll.element \/ poll'.attempts = maxAttempts)
               /\ poll'.resolved = 1 => (poll'.got = poll.element /\ ~Waiting'
                                         /\ (Has(log', "animate") \/ Has(log', "warn")))]_vars

\* the container never appeared: poll number maxAttempts has resolved with no
\* element and the continuation of the open effect has run
C33_Witness ==
    /\ poll = [attempts |-> maxAttempts, element |-> FALSE, resolved |-> 1, got |-> FALSE]
    /\ ~Waiting
    /\ Has(log, "warn") \/ Has(log, "animate")


(***************************************************************************)
(* Where y is when a transition of the lifecycle ends                      *)
(***************************************************************************)
\* C34: the lifecycle, openStateRef and the state of useSheetState, becomes
\* closed only when y has reached the closed position: no drag start that
\* cancels the close animation part-way makes it closed while y is at an open
\* offset.
C34_ClosedOnlyAtClosedY ==
    [][/\ (openStateRef' = "closed" /\ openStateRef # "closed")
            => y' >= closedY(sheetHeight')
       /\ (state' = "closed" /\ state # "closed")
            => y' >= closedY(sheetHeight')]_vars


\* the offset at which an opened sheet rests: that of the initial snap point when
\* one is configured, the fully open offset otherwise
OpenRestingY ==
    IF initialSnap # Undefined /\ HasSnapPoint(sheetHeight, initialSnap)
    THEN getSnapPoint(sheetHeight, initialSnap).snapValueY
    ELSE 0

\* C35: whenever the open transition completes, openStateRef becoming open and
\* onOpenEnd firing, y is at the resting offset of the opened sheet, strictly
\* above the closed position: the sheet is never reported open with y at closedY.
C35_OpenEndsAtOpenOffset ==
    [][Has(log', "onOpenEnd")
        => /\ openStateRef' = "open"
           /\ y' = OpenRestingY
           /\ y' < closedY(sheetHeight')]_vars


(***************************************************************************)
(* The open sheet at rest                                                  *)
(***************************************************************************)
\* the lifecycle is open and nothing is under way: no render due, no
\* continuation queued, no animation, no poll, no drag
OpenAtRest ==
    /\ AtRest
    /\ state = "open" /\ openStateRef = "open"
    /\ isOpen
    /\ ~yUnconstrainedRef.set

\* C36: whenever the sheet is open and at rest with snap points configured and
\* currentSnap defined, y is the snapValueY of the snap point at index currentSnap.
C36_RestsAtCurrentSnap ==
    (OpenAtRest /\ snapPointsProp.given /\ currentSnap # Undefined
       /\ HasSnapPoint(sheetHeight, currentSnap))
      => y = getSnapPoint(sheetHeight, currentSnap).snapValueY


\* C37: with the default keyboard handler, the default detent and snap points,
\* whenever the lifecycle is open at rest and the keyboard is reported visible,
\* currentSnap is the last index, also when the keyboard became visible while
\* the sheet was still opening.
C37_FullWhileKeyboardVisible ==
    (OpenAtRest /\ kbOpen /\ snapPointsProp.given /\ sheetHeight > 0)
      => currentSnap = Len(snapPoints(sheetHeight)) - 1


(***************************************************************************)
(* The keyboard state that useVirtualKeyboard reports                      *)
(***************************************************************************)
\* C38: whenever the coordinator is disabled, its isEnabled (isOpen of the last
\* render) false, it reports isVisible = false and height = 0: no visible state
\* computed before the disabling is left to survive into the next enabled period.
C38_DisabledReportsHidden ==
    (mounted /\ ~KeyboardListening) => keyboardState = NoKeyboard


\* C39: in every state the pair that useVirtualKeyboard reports satisfies
\* isVisible = (height > 0), and a pair with isVisible = true is computed only
\* while a text input inside the sheet has the focus.
C39_VisibleIffPositiveHeight ==
    [][/\ keyboardState'.isVisible = (keyboardState'.height > 0)
       /\ (keyboardState' # keyboardState /\ keyboardState'.isVisible)
            => (isTextInput(focus) /\ InContainer(focus) /\ focusedElementRef = focus)]_vars

\* with navigator.virtualKeyboard a keyboard of a height not beyond the
\* threshold is reported visible, an input of the sheet having the focus
C39_Witness ==
    /\ platform.api = "vk"
    /\ keyboardState = [isVisible |-> TRUE, height |-> visualViewportThreshold]
    /\ isTextInput(focus) /\ focusedElementRef = focus

====
